---------------------------- MODULE Spec2Model ----------------------------
(***************************************************************************)
(* HD address derivation and chain monitoring of SHKeeper:                 *)
(*   shkeeper/modules/classes/hd_wallet.py       (HDWalletProvider)        *)
(*   shkeeper/modules/classes/getblock_client.py (GetBlockClient)          *)
(*   shkeeper/modules/cryptos/btc_hdwallet.py    (BtcHDWallet)             *)
(*   shkeeper/modules/cryptos/ltc_hdwallet.py    (LtcHDWallet)             *)
(*                                                                         *)
(* A worker process holds the class-level state of HDWalletProvider (the   *)
(* lock and the per-currency counters) and one currency module per         *)
(* currency.  Every call is served by a thread of its own in one of the    *)
(* worker processes (a request handler); every step of a call that touches *)
(* shared state is one action, so the interleavings the interpreter allows *)
(* are the model's behaviours.                                             *)
(*                                                                         *)
(* bitcoinlib and cryptography are libraries, not code of the repository:  *)
(* the BIP32 child-key derivation and address encoding are represented by  *)
(* free constructors (a record of exactly the inputs the code passes to    *)
(* the library), the Fernet decryption by its outcome.  httpx is a library *)
(* too: a request ends with one of the responses the service or the        *)
(* transport can produce.  The parent classes of the currency modules      *)
(* (Btc, ltc: the node-wallet path) are not among these files; their       *)
(* getbalance answers with a balance or raises.                            *)
(***************************************************************************)
EXTENDS Integers, Sequences, FiniteSets, Bags, TLC

(***************************************************************************)
(* Bounds of the model.                                                    *)
(***************************************************************************)
NProcs == 2
MaxCalls == 3
MaxRestarts == 1
\* requests served in the scenarios of SpecBalance, SpecVault and SpecModule
MaxRequests == 2
\* calls served in the scenarios of SpecClient
MaxClientCalls == 1
\* unspent outputs in one answer of the chain-data service
MaxUtxos == 2
\* outputs of one transaction
MaxVouts == 2

Procs == 1..NProcs
\* the k-th call started is served by thread k
Threads == 1..MaxCalls

None == "None"
\* an unset HDWalletProvider attribute, an unset local index, an empty dict,
\* no lock holder, no process
NoProvider == [tag |-> "None"]
NoIndex == 0 - 1
EmptyDict == [c \in {} |-> 0]
NoThread == 0
NoProc == 0 - 1
NoClient == [tag |-> "None"]
NoError == [type |-> "None"]
NoRequest == [method |-> "None"]
NoOutcome == [kind |-> "None"]
NoWrapper == [name |-> "None"]

(***************************************************************************)
(* hd_wallet.py: the tables.                                               *)
(***************************************************************************)
BIP44_PATHS == [BTC |-> "m/44'/0'/0'/0", LTC |-> "m/44'/2'/0'/0"]
BITCOIN_NETWORKS == [mainnet |-> "bitcoin", testnet |-> "testnet"]
LITECOIN_NETWORKS == [mainnet |-> "litecoin", testnet |-> "litecoin_testnet"]

Currencies == DOMAIN BIP44_PATHS
Networks == {"mainnet", "testnet"}

\* The mnemonic stored (encrypted) in the seed file of the vault, as the
\* words seed_phrase.split() gives.
Mnemonic ==
    <<"abandon", "abandon", "abandon", "abandon", "abandon", "abandon",
      "abandon", "abandon", "abandon", "abandon", "abandon", "about">>

\* HDKey.from_seed(mnemo.to_seed(seed_phrase)): the root key of a mnemonic.
MasterKey(seed_phrase) == <<"HDKey", seed_phrase>>

VARIABLES
    \* the deployment
    seed_file,       \* the encrypted seed at HD_WALLET_SEED_ENCRYPTED_FILE (see SeedFiles)
    encryption_key,  \* HD_WALLET_ENCRYPTION_KEY as load_secret finds it (see Keys)
    network,         \* BTC_NETWORK / LTC_NETWORK / GETBLOCK_NETWORK
    \* the worker processes
    restarts,        \* how many times a worker process was restarted
    epoch,           \* [Procs -> Nat]: the incarnation of each worker process
    lock,            \* [Procs -> thread or NoThread]: HDWalletProvider._lock of the process
    index_counters,  \* [Procs -> dict currency -> Nat]: HDWalletProvider._index_counters
    hd_provider,     \* [Procs -> [Currencies -> provider or NoProvider]]: <module>.hd_provider
    \* the threads
    calls,           \* number of calls started (bounded by MaxCalls)
    proc,            \* [Threads -> process the thread runs in, or NoProc]
    pc,              \* [Threads -> label]: where each thread is
    mod,             \* [Threads -> the currency module whose method runs, or None]
    currency,        \* [Threads -> the `currency` argument of create_hd_wallet_provider, or None]
    self,            \* [Threads -> the HDWalletProvider whose method runs, or NoProvider]
    index,           \* [Threads -> the local `index`, or NoIndex]
    addr,            \* [Threads -> the address argument of getbalance, or None]
    handling,        \* [Threads -> the exception whose handler is running, or NoError]
    request,         \* [Threads -> the JSON-RPC request in flight, or NoRequest]
    outcome,         \* [Threads -> what the call is about to hand to its caller, or NoOutcome]
    wrapper,         \* [Threads -> the GetBlockClient method, getaddrbytx or load_secret
                     \*  called and its arguments, or NoWrapper]
    trace,           \* [Threads -> Seq]: the requests posted and the parent calls made by the call
    \* the chain-data side of the currency modules
    use_getblock_for_balance, \* [Currencies -> BOOLEAN]: <module>.use_getblock_for_balance
    access_token,    \* GETBLOCK_ACCESS_TOKEN of the deployment: "unset" | "set"
    getblock_client, \* [Procs -> [Currencies -> client or NoClient]]: <module>.getblock_client
    \* history
    allocLog,        \* [Procs -> [Currencies -> Seq(Nat)]]: the indices read at line 216, in order
    issued,          \* bag of the (process, epoch, currency, network, index, address) mkaddr returned
    derived,         \* set of the (currency, network, index, address) derive_address_at_index returned
    failed           \* set of the (operation, error, cause) raised to callers

envVars == <<seed_file, encryption_key, network>>
procVars == <<restarts, epoch, lock, index_counters, hd_provider>>
threadVars == <<calls, proc, pc, mod, currency, self, index>>
histVars == <<allocLog, issued, derived, failed>>
\* the locals of a thread in getbalance; the chain-data side of the modules
balLocals == <<addr, handling, request, outcome, wrapper, trace>>
balVars == <<use_getblock_for_balance, access_token, getblock_client>>
vars == <<envVars, procVars, threadVars, histVars, balLocals, balVars>>

(***************************************************************************)
(* Values.                                                                 *)
(***************************************************************************)
Provider(cur, net, master_key) ==
    [currency |-> cur, network |-> net, master_key |-> master_key]

UpdT(f, th, v) == [f EXCEPT ![th] = v]
UpdP(f, p, c, v) == [f EXCEPT ![p][c] = v]
\* d[k] = v on a dict
DictSet(d, k, v) == [x \in DOMAIN d \cup {k} |-> IF x = k THEN v ELSE d[x]]

(***************************************************************************)
(* The seed file and the key.  A seed file is a Fernet token: it decrypts  *)
(* to its plaintext under the key it was made with if it is intact.        *)
(***************************************************************************)
VaultKey == "k1"
\* not set; not 32 url-safe base64-encoded bytes; the key of the vault; another key
Keys == {"unset", "malformed", VaultKey, "k2"}

Token(key, words) == [state |-> "file", fernet |-> key, intact |-> TRUE, plaintext |-> words]
Tampered(token) == [token EXCEPT !.intact = FALSE]
\* HD_WALLET_SEED_ENCRYPTED_FILE not set; set to a path where no file is
UnsetSeedPath == [state |-> "unset"]
NoSeedFile == [state |-> "absent"]
SeedFile == Token(VaultKey, Mnemonic)

\* 13 words; 12 words of the wordlist with a wrong checksum; a word not in
\* the wordlist
Words13 == Mnemonic \o <<"about">>
WrongChecksum == [i \in 1..12 |-> "abandon"]
UnknownWord == [Mnemonic EXCEPT ![12] = "xyzzy"]
SeedFiles ==
    {UnsetSeedPath, NoSeedFile, SeedFile, Tampered(SeedFile)}
    \cup {Token(VaultKey, w) : w \in {Words13, WrongChecksum, UnknownWord}}

\* a failed step: the exception and the library calls made before it
Fail(type, message, steps) ==
    [ok |-> FALSE, error |-> [type |-> type, message |-> message], steps |-> steps]

\* (a path taken to exist without looking)
SeedPathAssumed(file) == TRUE
\* `seed_path.exists()`
SeedPathExists(file) == file.state = "file"

\* (a cipher without authentication: whatever the key, some text comes out)
DecryptUnauthenticated(key, file) == [ok |-> TRUE, text |-> file.plaintext]
\* `cipher.decrypt(encrypted_data).decode().strip()`
Decrypt(key, file) ==
    IF file.intact /\ file.fernet = key
    THEN [ok |-> TRUE, text |-> file.plaintext]
    ELSE [ok |-> FALSE]

\* bitcoinlib's Mnemonic.to_seed validates the words (wordlist and checksum)
Wordlist == {"abandon", "about"}
ValidPhrases == {Mnemonic}
ToSeed(words) ==
    IF (\E i \in DOMAIN words : words[i] \notin Wordlist) \/ words \notin ValidPhrases
    THEN [ok |-> FALSE]
    ELSE [ok |-> TRUE, seed |-> words]

\* (a phrase that is passed on unvalidated)
ValidateMnemonicNever(words) == "ok"
\* the word-count check and the to_seed call of _load_master_key
ValidateMnemonic(words) ==
    IF Len(words) \notin {12, 15, 18, 21, 24} THEN "Invalid BIP39 seed phrase"
    ELSE IF ~ToSeed(words).ok THEN "Invalid BIP39 mnemonic phrase"
    ELSE "ok"

\* The text of a message is a sequence of pieces: literal text, a number, or
\* a value formatted into it.
\* str(e) of the exception Mnemonic.to_seed raises for words it rejects:
\* bitcoinlib names the first word it does not find in the wordlist, and
\* prints the entropy decoded from the words when the checksum is wrong
ToSeedMessage(words) ==
    IF \E i \in DOMAIN words : words[i] \notin Wordlist
    THEN LET i == CHOOSE k \in DOMAIN words :
                      /\ words[k] \notin Wordlist
                      /\ \A j \in 1..(k - 1) : words[j] \in Wordlist IN
         <<[text |-> "Unrecognised word"], [word |-> words[i]]>>
    ELSE <<[text |-> "Invalid checksum for entropy"], [entropy |-> words]>>
\* what follows the fixed text in the two ValueErrors of the validation:
\* `got: {len(words)} words`, and `{e}` of the exception of to_seed
ValidationDetail(words) ==
    IF Len(words) \notin {12, 15, 18, 21, 24}
    THEN <<[number |-> Len(words)]>>
    ELSE ToSeedMessage(words)

(***************************************************************************)
(* HDWalletProvider._load_master_key: the outcome of loading the seed.     *)
(***************************************************************************)
LoadMasterKey(file, key) ==
    IF ~SeedPathExists(file)
    THEN Fail("FileNotFoundError", "Encrypted seed file not found", <<"exists">>)
    ELSE IF key = "malformed"
    THEN Fail("ValueError", "Fernet key must be 32 url-safe base64-encoded bytes",
              <<"exists", "Fernet">>)
    ELSE IF file.state # "file"
    THEN Fail("FileNotFoundError", "No such file or directory",
              <<"exists", "Fernet", "read_bytes">>)
    ELSE IF ~Decrypt(key, file).ok
    THEN Fail("InvalidToken", "Failed to decrypt seed file",
              <<"exists", "Fernet", "read_bytes", "decrypt">>)
    ELSE LET words == Decrypt(key, file).text
             valid == ValidateMnemonic(words) IN
         IF valid # "ok"
         THEN [ok |-> FALSE,
               error |-> [type |-> "ValueError", message |-> valid,
                          detail |-> ValidationDetail(words)],
               steps |-> <<"exists", "Fernet", "read_bytes", "decrypt">>]
         ELSE [ok |-> TRUE, master_key |-> MasterKey(words),
               steps |-> <<"exists", "Fernet", "read_bytes", "decrypt", "from_seed">>]

\* HDWalletProvider.__init__ up to the end of _load_master_key
NewProvider(cur, file, key, net) ==
    IF cur \notin DOMAIN BIP44_PATHS
    THEN Fail("ValueError", "Unsupported currency", <<>>)
    ELSE IF net \notin Networks
    THEN Fail("ValueError", "Invalid network", <<>>)
    ELSE LET loaded == LoadMasterKey(file, key) IN
         IF loaded.ok
         THEN [ok |-> TRUE, provider |-> Provider(cur, net, loaded.master_key),
               steps |-> loaded.steps]
         ELSE loaded

\* create_hd_wallet_provider(currency), its other arguments from the environment
CreateHdWalletProvider(cur, file, key, net) ==
    IF file.state = "unset"
    THEN Fail("ValueError", "HD_WALLET_SEED_ENCRYPTED_FILE environment variable not set", <<>>)
    ELSE IF key = "unset"
    THEN Fail("ValueError", "HD_WALLET_ENCRYPTION_KEY environment variable not set", <<>>)
    ELSE NewProvider(cur, file, key, net)

(***************************************************************************)
(* HDWalletProvider._derive_address_at_index.                              *)
(***************************************************************************)
\* f"{base_path}/{index}"
FullPath(base_path, idx) == <<base_path, idx>>

\* the network name handed to bitcoinlib
NetworkName(cur, net) ==
    IF cur = "BTC" THEN BITCOIN_NETWORKS[net]
    ELSE IF cur = "LTC" THEN LITECOIN_NETWORKS[net]
    ELSE "bitcoin"

\* (a derivation that reads the shared counter instead of its argument)
DeriveAddressOfCounter(slf, idx) ==
    [key |-> slf.master_key,
     path |-> FullPath(BIP44_PATHS[slf.currency],
                       IF slf.currency \in DOMAIN index_counters[1]
                       THEN index_counters[1][slf.currency] ELSE idx),
     network |-> NetworkName(slf.currency, slf.network)]

\* master_key.subkey_for_path(full_path), then child_key.address() on the network
DeriveAddressAtIndex(slf, idx) ==
    [key |-> slf.master_key,
     path |-> FullPath(BIP44_PATHS[slf.currency], idx),
     network |-> NetworkName(slf.currency, slf.network)]

(***************************************************************************)
(* threading.Lock                                                          *)
(***************************************************************************)
LockFree(p) == lock[p] = NoThread
\* (a lock that does not exclude: the with-statement left out)
AcquireNoExclusion(th) == lock' = [lock EXCEPT ![proc[th]] = th]
Acquire(th) == LockFree(proc[th]) /\ lock' = [lock EXCEPT ![proc[th]] = th]
\* (a with-block that extends over what follows it: the lock is kept)
ReleaseLate(th) == lock' = lock
Release(th) == lock' = [lock EXCEPT ![proc[th]] = NoThread]

(***************************************************************************)
(* Initial state: every worker process freshly started, nothing loaded.    *)
(***************************************************************************)
Boot ==
    /\ restarts = 0
    /\ epoch = [p \in Procs |-> 0]
    /\ lock = [p \in Procs |-> NoThread]
    /\ index_counters = [p \in Procs |-> EmptyDict]
    /\ hd_provider = [p \in Procs |-> [c \in Currencies |-> NoProvider]]
    /\ calls = 0
    /\ proc = [th \in Threads |-> NoProc]
    /\ pc = [th \in Threads |-> "new"]
    /\ mod = [th \in Threads |-> None]
    /\ currency = [th \in Threads |-> None]
    /\ self = [th \in Threads |-> NoProvider]
    /\ index = [th \in Threads |-> NoIndex]
    /\ allocLog = [p \in Procs |-> [c \in Currencies |-> <<>>]]
    /\ issued = EmptyBag
    /\ derived = {}
    /\ failed = {}
    /\ addr = [th \in Threads |-> None]
    /\ handling = [th \in Threads |-> NoError]
    /\ request = [th \in Threads |-> NoRequest]
    /\ outcome = [th \in Threads |-> NoOutcome]
    /\ wrapper = [th \in Threads |-> NoWrapper]
    /\ trace = [th \in Threads |-> <<>>]
    /\ getblock_client = [p \in Procs |-> [c \in Currencies |-> NoClient]]

\* any seed-file state and network; the balance toggles at their default
\* ("false") and no access token configured
Init ==
    /\ seed_file \in {NoSeedFile, SeedFile}
    /\ encryption_key = VaultKey
    /\ network \in Networks
    /\ use_getblock_for_balance = [c \in Currencies |-> FALSE]
    /\ access_token = "unset"
    /\ Boot

\* the thread of a call that returned or raised is gone
Finish(th) ==
    /\ pc' = UpdT(pc, th, "done")
    /\ proc' = UpdT(proc, th, NoProc)
    /\ mod' = UpdT(mod, th, None)
    /\ currency' = UpdT(currency, th, None)
    /\ self' = UpdT(self, th, NoProvider)
    /\ index' = UpdT(index, th, NoIndex)
    /\ addr' = UpdT(addr, th, None)
    /\ handling' = UpdT(handling, th, NoError)
    /\ request' = UpdT(request, th, NoRequest)
    /\ outcome' = UpdT(outcome, th, NoOutcome)
    /\ wrapper' = UpdT(wrapper, th, NoWrapper)
    /\ trace' = UpdT(trace, th, <<>>)

\* a call arrives at worker process p and is served by the next thread
Arrive(th, p) ==
    /\ calls < MaxCalls
    /\ th = calls + 1
    /\ calls' = calls + 1
    /\ proc' = UpdT(proc, th, p)

(***************************************************************************)
(* <Btc|Ltc>HDWallet.mkaddr                                                *)
(***************************************************************************)
\* (an address request that sets up a chain-data client of the module)
MkaddrCallCreatingClient(th, p, m) ==
    /\ Arrive(th, p)
    /\ mod' = UpdT(mod, th, m)
    /\ currency' = UpdT(currency, th, m)
    /\ pc' = UpdT(pc, th, IF hd_provider[p][m] = NoProvider THEN "create" ELSE "dna_lock")
    /\ getblock_client' = UpdP(getblock_client, p, m, [tag |-> "GetBlockClient"])
    /\ UNCHANGED <<envVars, procVars, self, index, histVars, balLocals,
                   use_getblock_for_balance, access_token>>
\* mkaddr entered; `if self.hd_provider is None`
MkaddrCall(th, p, m) ==
    /\ Arrive(th, p)
    /\ mod' = UpdT(mod, th, m)
    /\ currency' = UpdT(currency, th, m)
    /\ pc' = UpdT(pc, th, IF hd_provider[p][m] = NoProvider THEN "create" ELSE "dna_lock")
    /\ UNCHANGED <<envVars, procVars, self, index, histVars, balLocals, balVars>>

\* what the caller gets when the construction fails: from mkaddr the ValueError
\* of line 123 made from the exception, from create_hd_wallet_provider the
\* exception itself
Surfaced(module, made) ==
    IF module # None
    THEN [op |-> "mkaddr",
          error |-> [type |-> "ValueError", message |-> "HD wallet configuration error"],
          cause |-> made.error, steps |-> made.steps]
    ELSE [op |-> "create_hd_wallet_provider", error |-> made.error,
          cause |-> NoError, steps |-> made.steps]

\* str(e): the fixed text of the message and what was formatted into it
ErrorText(e) ==
    <<[text |-> e.message]>> \o (IF "detail" \in DOMAIN e THEN e.detail ELSE <<>>)
\* mkaddr's handler: the line `logger.error(f"Failed to initialize HD wallet
\* provider: {e}", exc_info=True)` and the message of the ValueError it raises
MkaddrErrorLog(e) == <<[text |-> "Failed to initialize HD wallet provider"]>> \o ErrorText(e)
MkaddrErrorMessage(e) == <<[text |-> "HD wallet configuration error"]>> \o ErrorText(e)

\* create_hd_wallet_provider(currency) is called directly
FactoryCall(th, p, c) ==
    /\ Arrive(th, p)
    /\ currency' = UpdT(currency, th, c)
    /\ pc' = UpdT(pc, th, "create")
    /\ UNCHANGED <<envVars, procVars, mod, self, index, histVars, balLocals, balVars>>

\* (a failed construction remembered in the module)
CreateProviderPoisoning(th) ==
    /\ pc[th] = "create"
    /\ LET made == CreateHdWalletProvider(currency[th], seed_file, encryption_key, network) IN
        IF made.ok
        THEN /\ self' = UpdT(self, th, made.provider)
             /\ pc' = UpdT(pc, th, "init_lock")
             /\ UNCHANGED <<proc, mod, currency, index, failed, hd_provider, balLocals>>
        ELSE /\ failed' = failed \cup {Surfaced(mod[th], made)}
             /\ hd_provider' = IF mod[th] # None
                               THEN UpdP(hd_provider, proc[th], mod[th], [tag |-> "failed"])
                               ELSE hd_provider
             /\ Finish(th)
    /\ UNCHANGED <<envVars, restarts, epoch, lock, index_counters,
                   calls, allocLog, issued, derived, balVars>>

\* (a failed construction answered with an empty address)
CreateProviderPlaceholder(th) ==
    /\ pc[th] = "create"
    /\ LET made == CreateHdWalletProvider(currency[th], seed_file, encryption_key, network) IN
        IF made.ok
        THEN /\ self' = UpdT(self, th, made.provider)
             /\ pc' = UpdT(pc, th, "init_lock")
             /\ UNCHANGED <<proc, mod, currency, index, issued, balLocals>>
        ELSE /\ issued' = issued (+) SetToBag({[proc |-> proc[th], epoch |-> epoch[proc[th]],
                                                 currency |-> currency[th], network |-> network,
                                                 index |-> NoIndex,
                                                 address |-> [key |-> <<>>, path |-> <<>>,
                                                              network |-> ""]]})
             /\ Finish(th)
    /\ UNCHANGED <<envVars, procVars, calls, allocLog, derived, failed, balVars>>

\* create_hd_wallet_provider(currency) and HDWalletProvider.__init__ up to the
\* end of _load_master_key
CreateProvider(th) ==
    /\ pc[th] = "create"
    /\ LET made == CreateHdWalletProvider(currency[th], seed_file, encryption_key, network) IN
        IF made.ok
        THEN /\ self' = UpdT(self, th, made.provider)
             /\ pc' = UpdT(pc, th, "init_lock")
             /\ UNCHANGED <<proc, mod, currency, index, failed, balLocals>>
        ELSE /\ failed' = failed \cup {Surfaced(mod[th], made)}
             /\ Finish(th)
    /\ UNCHANGED <<envVars, procVars, calls, allocLog, issued, derived, balVars>>

\* __init__: `with self._lock:`
InitAcquire(th) ==
    /\ pc[th] = "init_lock"
    /\ Acquire(th)
    /\ pc' = UpdT(pc, th, "init_counter")
    /\ UNCHANGED <<envVars, restarts, epoch, index_counters, hd_provider,
                   calls, proc, mod, currency, self, index, histVars, balLocals, balVars>>

\* (an initialisation that does not test `currency not in self._index_counters`)
InitCounterAlways(th) ==
    /\ pc[th] = "init_counter"
    /\ index_counters' = [index_counters EXCEPT ![proc[th]] = DictSet(@, self[th].currency, 0)]
    /\ pc' = UpdT(pc, th, "init_unlock")
    /\ UNCHANGED <<envVars, restarts, epoch, lock, hd_provider,
                   calls, proc, mod, currency, self, index, histVars, balLocals, balVars>>

\* __init__: `if currency not in self._index_counters: self._index_counters[currency] = 0`
InitCounter(th) ==
    /\ pc[th] = "init_counter"
    /\ index_counters' =
         IF self[th].currency \notin DOMAIN index_counters[proc[th]]
         THEN [index_counters EXCEPT ![proc[th]] = DictSet(@, self[th].currency, 0)]
         ELSE index_counters
    /\ pc' = UpdT(pc, th, "init_unlock")
    /\ UNCHANGED <<envVars, restarts, epoch, lock, hd_provider,
                   calls, proc, mod, currency, self, index, histVars, balLocals, balVars>>

\* __init__: the with-block ends
InitRelease(th) ==
    /\ pc[th] = "init_unlock"
    /\ Release(th)
    /\ pc' = UpdT(pc, th, "assign")
    /\ UNCHANGED <<envVars, restarts, epoch, index_counters, hd_provider,
                   calls, proc, mod, currency, self, index, histVars, balLocals, balVars>>

\* (a provider that brings a counter of its own: assigning it starts the
\* currency's count anew)
AssignProviderFresh(th) ==
    /\ pc[th] = "assign"
    /\ mod[th] # None
    /\ hd_provider' = UpdP(hd_provider, proc[th], mod[th], self[th])
    /\ index_counters' = [index_counters EXCEPT ![proc[th]] = DictSet(@, self[th].currency, 0)]
    /\ self' = UpdT(self, th, NoProvider)
    /\ pc' = UpdT(pc, th, "dna_lock")
    /\ UNCHANGED <<envVars, restarts, epoch, lock,
                   calls, proc, mod, currency, index, histVars, balLocals, balVars>>

\* mkaddr: `self.hd_provider = create_hd_wallet_provider(...)` is assigned
AssignProvider(th) ==
    /\ pc[th] = "assign"
    /\ mod[th] # None
    /\ hd_provider' = UpdP(hd_provider, proc[th], mod[th], self[th])
    /\ self' = UpdT(self, th, NoProvider)
    /\ pc' = UpdT(pc, th, "dna_lock")
    /\ UNCHANGED <<envVars, restarts, epoch, lock, index_counters,
                   calls, proc, mod, currency, index, histVars, balLocals, balVars>>

\* create_hd_wallet_provider, called directly, returns the provider
FactoryReturn(th) ==
    /\ pc[th] = "assign"
    /\ mod[th] = None
    /\ Finish(th)
    /\ UNCHANGED <<envVars, procVars, calls, histVars, balVars>>

(***************************************************************************)
(* HDWalletProvider.derive_next_address, called by mkaddr on               *)
(* self.hd_provider                                                        *)
(***************************************************************************)
\* `with self._lock:`
DnaAcquire(th) ==
    /\ pc[th] = "dna_lock"
    /\ Acquire(th)
    /\ self' = UpdT(self, th, hd_provider[proc[th]][mod[th]])
    /\ pc' = UpdT(pc, th, "dna_read")
    /\ UNCHANGED <<envVars, restarts, epoch, index_counters, hd_provider,
                   calls, proc, mod, currency, index, histVars, balLocals, balVars>>

\* `index = self._index_counters[self.currency]`
DnaRead(th) ==
    /\ pc[th] = "dna_read"
    /\ index' = UpdT(index, th, index_counters[proc[th]][self[th].currency])
    /\ allocLog' = UpdP(allocLog, proc[th], self[th].currency,
                        Append(allocLog[proc[th]][self[th].currency],
                               index_counters[proc[th]][self[th].currency]))
    /\ pc' = UpdT(pc, th, "dna_incr")
    /\ UNCHANGED <<envVars, procVars, calls, proc, mod, currency, self, issued, derived, failed,
                   balLocals, balVars>>

\* (one counter for all currencies: every entry is advanced)
DnaIncrEveryCurrency(th) ==
    /\ pc[th] = "dna_incr"
    /\ index_counters' = [index_counters EXCEPT ![proc[th]] =
                              [c \in DOMAIN @ |-> @[c] + 1]]
    /\ pc' = UpdT(pc, th, "dna_unlock")
    /\ UNCHANGED <<envVars, restarts, epoch, lock, hd_provider,
                   calls, proc, mod, currency, self, index, histVars, balLocals, balVars>>

\* `self._index_counters[self.currency] += 1`
DnaIncr(th) ==
    /\ pc[th] = "dna_incr"
    /\ index_counters' = UpdP(index_counters, proc[th], self[th].currency,
                              index_counters[proc[th]][self[th].currency] + 1)
    /\ pc' = UpdT(pc, th, "dna_unlock")
    /\ UNCHANGED <<envVars, restarts, epoch, lock, hd_provider,
                   calls, proc, mod, currency, self, index, histVars, balLocals, balVars>>

\* the with-block ends
DnaRelease(th) ==
    /\ pc[th] = "dna_unlock"
    /\ Release(th)
    /\ pc' = UpdT(pc, th, "dna_derive")
    /\ UNCHANGED <<envVars, restarts, epoch, index_counters, hd_provider,
                   calls, proc, mod, currency, self, index, histVars, balLocals, balVars>>

\* `address = self._derive_address_at_index(index)`; `return address, index`;
\* mkaddr returns the address
DnaDerive(th) ==
    /\ pc[th] = "dna_derive"
    /\ LET address == DeriveAddressAtIndex(self[th], index[th]) IN
        issued' = issued (+) SetToBag({[proc |-> proc[th], epoch |-> epoch[proc[th]],
                                        currency |-> self[th].currency,
                                        network |-> self[th].network,
                                        index |-> index[th], address |-> address]})
    /\ Finish(th)
    /\ UNCHANGED <<envVars, procVars, calls, allocLog, derived, failed, balVars>>

\* (a module that forgets its provider when a derivation fails)
DnaDeriveFailsDroppingProvider(th) ==
    /\ pc[th] = "dna_derive"
    /\ failed' = failed \cup {[op |-> "derive_next_address",
                                error |-> [type |-> "Exception", message |-> "derivation failed"],
                                currency |-> self[th].currency, index |-> index[th]]}
    /\ hd_provider' = UpdP(hd_provider, proc[th], mod[th], NoProvider)
    /\ Finish(th)
    /\ UNCHANGED <<envVars, restarts, epoch, lock, index_counters,
                   calls, allocLog, issued, derived, balVars>>

\* (a derivation whose failure gives the index back)
DnaDeriveFailsRollingBack(th) ==
    /\ pc[th] = "dna_derive"
    /\ failed' = failed \cup {[op |-> "derive_next_address",
                                error |-> [type |-> "Exception", message |-> "derivation failed"],
                                currency |-> self[th].currency, index |-> index[th]]}
    /\ index_counters' = UpdP(index_counters, proc[th], self[th].currency, index[th])
    /\ Finish(th)
    /\ UNCHANGED <<envVars, restarts, epoch, lock, hd_provider,
                   calls, allocLog, issued, derived, balVars>>

\* `self._derive_address_at_index(index)` raises (bitcoinlib rejects the key,
\* the path or the network): derive_next_address passes the exception on,
\* mkaddr logs it and re-raises
DnaDeriveFails(th) ==
    /\ pc[th] = "dna_derive"
    /\ failed' = failed \cup {[op |-> "derive_next_address",
                                error |-> [type |-> "Exception", message |-> "derivation failed"],
                                currency |-> self[th].currency, index |-> index[th]]}
    /\ Finish(th)
    /\ UNCHANGED <<envVars, procVars, calls, allocLog, issued, derived, balVars>>

(***************************************************************************)
(* HDWalletProvider.derive_address_at_index, called on the provider of a   *)
(* module that has one, with any index argument                            *)
(***************************************************************************)
IndexArgs == 0..(MaxCalls - 1)

DeriveAtIndexCall(th, p, m, i) ==
    /\ calls < MaxCalls
    /\ th = calls + 1
    /\ calls' = calls + 1
    /\ hd_provider[p][m] # NoProvider
    /\ LET slf == hd_provider[p][m]
           address == DeriveAddressAtIndex(slf, i) IN
        derived' = derived \cup {[currency |-> slf.currency, network |-> slf.network,
                                  index |-> i, address |-> address]}
    /\ pc' = UpdT(pc, th, "done")
    /\ UNCHANGED <<envVars, procVars, proc, mod, currency, self, index, allocLog, issued, failed,
                   balLocals, balVars>>

(***************************************************************************)
(* HDWalletProvider.get_current_index, called on the provider of a module  *)
(* that has one                                                            *)
(***************************************************************************)
\* (a reader that reserves the index it reports)
GetCurrentIndexCallReserving(th, p, m) ==
    /\ Arrive(th, p)
    /\ hd_provider[p][m] # NoProvider
    /\ LockFree(p) /\ lock' = [lock EXCEPT ![p] = th]
    /\ mod' = UpdT(mod, th, m)
    /\ self' = UpdT(self, th, hd_provider[p][m])
    /\ LET c == hd_provider[p][m].currency
           n == IF c \in DOMAIN index_counters[p] THEN index_counters[p][c] ELSE 0 IN
        /\ index' = UpdT(index, th, n)
        /\ index_counters' = UpdP(index_counters, p, c, n + 1)
    /\ pc' = UpdT(pc, th, "gci_return")
    /\ UNCHANGED <<envVars, restarts, epoch, hd_provider,
                   currency, histVars, balLocals, balVars>>

\* (a reader that does not wait for the lock)
GetCurrentIndexCallUnlocked(th, p, m) ==
    /\ Arrive(th, p)
    /\ hd_provider[p][m] # NoProvider
    /\ mod' = UpdT(mod, th, m)
    /\ self' = UpdT(self, th, hd_provider[p][m])
    /\ LET c == hd_provider[p][m].currency IN
        index' = UpdT(index, th, IF c \in DOMAIN index_counters[p]
                                 THEN index_counters[p][c] ELSE 0)
    /\ pc' = UpdT(pc, th, "gci_return")
    /\ UNCHANGED <<envVars, procVars, currency, histVars, balLocals, balVars>>

\* `with self._lock:` entered, `self._index_counters.get(self.currency, 0)`
\* evaluated
GetCurrentIndexCall(th, p, m) ==
    /\ Arrive(th, p)
    /\ hd_provider[p][m] # NoProvider
    /\ LockFree(p) /\ lock' = [lock EXCEPT ![p] = th]
    /\ mod' = UpdT(mod, th, m)
    /\ self' = UpdT(self, th, hd_provider[p][m])
    /\ LET c == hd_provider[p][m].currency IN
        index' = UpdT(index, th, IF c \in DOMAIN index_counters[p]
                                 THEN index_counters[p][c] ELSE 0)
    /\ pc' = UpdT(pc, th, "gci_return")
    /\ UNCHANGED <<envVars, restarts, epoch, index_counters, hd_provider,
                   currency, histVars, balLocals, balVars>>

\* (a reader that returns with the lock still held)
GciReturnKeepingLock(th) ==
    /\ pc[th] = "gci_return"
    /\ Finish(th)
    /\ UNCHANGED <<envVars, procVars, calls, histVars, balVars>>

\* the value is returned and the with-block left
GciReturn(th) ==
    /\ pc[th] = "gci_return"
    /\ Release(th)
    /\ Finish(th)
    /\ UNCHANGED <<envVars, restarts, epoch, index_counters, hd_provider,
                   calls, histVars, balVars>>

(***************************************************************************)
(* JSON values, exceptions and Decimal                                     *)
(***************************************************************************)
JNull == [j |-> "null"]
JList(items) == [j |-> "list", items |-> items]
Decimal(n) == [dec |-> n]

\* (an exception raised after the handler of the first one has been left)
RaisedBare(type, handled) == [type |-> type, context |-> NoError]
\* an exception raised while `handled` is being handled (NoError: outside any
\* handler): Python records the handled exception as its __context__
Raised(type, handled) == [type |-> type, context |-> handled]

(***************************************************************************)
(* What the chain-data service may answer to one request                   *)
(***************************************************************************)
Amounts == {1, 2}
Addresses == {"addr"}
Utxos == {[txid |-> "tx", amount |-> a] : a \in Amounts}
UtxoLists == UNION {[1..n -> Utxos] : n \in 0..MaxUtxos}
\* an entry without "amount"
MalformedList == <<[txid |-> "tx"]>>

Responses ==
    {[http |-> "timeout"], [http |-> "status"], [http |-> "ok", json |-> FALSE]}
    \cup {[http |-> "ok", json |-> TRUE, data |-> d] :
            d \in {[result |-> JNull, error |-> [message |-> "Invalid address"]],
                   [result |-> JNull, error |-> JNull],
                   [id |-> 1]}
                  \cup {[result |-> JList(u), error |-> JNull] :
                          u \in UtxoLists \cup {MalformedList}}}

(***************************************************************************)
(* GetBlockClient                                                          *)
(***************************************************************************)
SUPPORTED_CURRENCIES == {"BTC", "LTC"}
DefaultTimeout == 30
MinConf == 0
MaxConf == 9999999

\* create_getblock_client(currency) and GetBlockClient.__init__
CreateGetblockClient(cur, token) ==
    IF token = "unset" \/ cur \notin SUPPORTED_CURRENCIES
    THEN [ok |-> FALSE, error |-> Raised("ValueError", NoError)]
    ELSE [ok |-> TRUE,
          client |-> [tag |-> "GetBlockClient", access_token |-> token,
                      currency |-> cur, endpoint |-> <<"https://go.getblock.io/", token>>,
                      timeout |-> DefaultTimeout]]

\* (a client that authenticates each call with the key of the vault)
PayloadCarryingKey(method, params) ==
    [jsonrpc |-> "2.0", method |-> method, params |-> params \o <<encryption_key>>, id |-> 1]

\* the payload of _rpc_call
Payload(method, params) ==
    [jsonrpc |-> "2.0", method |-> method, params |-> params, id |-> 1]

\* _rpc_call, from the response on: the result field, or the exception
RpcCall(resp) ==
    IF resp.http = "timeout"
    THEN [ok |-> FALSE, error |-> Raised("httpx.TimeoutException", NoError)]
    ELSE IF resp.http = "status"
    THEN [ok |-> FALSE, error |-> Raised("httpx.HTTPStatusError", NoError)]
    ELSE IF ~resp.json
    THEN [ok |-> FALSE, error |-> Raised("json.JSONDecodeError", NoError)]
    ELSE IF "error" \in DOMAIN resp.data /\ resp.data.error # JNull
    THEN [ok |-> FALSE, error |-> Raised("ValueError", NoError)]
    ELSE [ok |-> TRUE,
          result |-> IF "result" \in DOMAIN resp.data THEN resp.data.result ELSE JNull]

\* `not utxos`
Falsy(v) == v.j = "null" \/ (v.j = "list" /\ v.items = <<>>)

\* (a sum that stops after the first output)
SumAmountsFirst(items) == IF items = <<>> THEN 0 ELSE Head(items).amount
RECURSIVE SumAmounts(_)
SumAmounts(items) ==
    IF items = <<>> THEN 0 ELSE Head(items).amount + SumAmounts(Tail(items))

\* (a query that takes an empty answer for a failure)
GetAddressBalanceRaisingOnEmpty(rpc) ==
    IF ~rpc.ok
    THEN rpc
    ELSE IF rpc.result.j = "null"
    THEN [ok |-> TRUE, value |-> Decimal(0)]
    ELSE IF rpc.result.items = <<>>
    THEN [ok |-> FALSE, error |-> Raised("ValueError", NoError)]
    ELSE IF \E i \in DOMAIN rpc.result.items : "amount" \notin DOMAIN rpc.result.items[i]
    THEN [ok |-> FALSE, error |-> Raised("KeyError", NoError)]
    ELSE [ok |-> TRUE, value |-> Decimal(SumAmounts(rpc.result.items))]
\* (a query that answers zero when it could not be made)
GetAddressBalanceOrZero(rpc) ==
    IF ~rpc.ok
    THEN [ok |-> TRUE, value |-> Decimal(0)]
    ELSE IF Falsy(rpc.result)
    THEN [ok |-> TRUE, value |-> Decimal(0)]
    ELSE IF \E i \in DOMAIN rpc.result.items : "amount" \notin DOMAIN rpc.result.items[i]
    THEN [ok |-> TRUE, value |-> Decimal(0)]
    ELSE [ok |-> TRUE, value |-> Decimal(SumAmounts(rpc.result.items))]
\* get_address_balance, from the outcome of its _rpc_call on
GetAddressBalance(rpc) ==
    IF ~rpc.ok
    THEN rpc
    ELSE IF Falsy(rpc.result)
    THEN [ok |-> TRUE, value |-> Decimal(0)]
    ELSE IF \E i \in DOMAIN rpc.result.items : "amount" \notin DOMAIN rpc.result.items[i]
    THEN [ok |-> FALSE, error |-> Raised("KeyError", NoError)]
    ELSE [ok |-> TRUE, value |-> Decimal(SumAmounts(rpc.result.items))]

(***************************************************************************)
(* The node-wallet path: getbalance of the parent class (Btc, ltc).  It    *)
(* answers with a balance or raises.                                       *)
(***************************************************************************)
ParentBalances == {0, 5}
\* a call of a method of the parent class
NodeWalletCall(method) == [node |-> method]
ParentOutcomes ==
    {[ok |-> TRUE, value |-> Decimal(b)] : b \in ParentBalances}
    \cup {[ok |-> FALSE, error |-> "NodeWalletError"]}

(***************************************************************************)
(* <Btc|Ltc>HDWallet.getbalance                                            *)
(***************************************************************************)
\* (a getbalance that tries the chain-data client whatever the toggle says)
GetbalanceCallIgnoringToggle(th, p, m, a) ==
    /\ Arrive(th, p)
    /\ mod' = UpdT(mod, th, m)
    /\ addr' = UpdT(addr, th, a)
    /\ pc' = UpdT(pc, th, IF getblock_client[p][m] = NoClient THEN "gb_create"
                          ELSE "gb_send")
    /\ UNCHANGED <<envVars, procVars, currency, self, index, histVars,
                   handling, request, outcome, wrapper, trace, balVars>>

\* getbalance entered: `if self.use_getblock_for_balance`,
\* `if self.getblock_client is None`
GetbalanceCall(th, p, m, a) ==
    /\ Arrive(th, p)
    /\ mod' = UpdT(mod, th, m)
    /\ addr' = UpdT(addr, th, a)
    /\ pc' = UpdT(pc, th, IF ~use_getblock_for_balance[m] THEN "gb_parent"
                          ELSE IF getblock_client[p][m] = NoClient THEN "gb_create"
                          ELSE "gb_send")
    /\ UNCHANGED <<envVars, procVars, currency, self, index, histVars,
                   handling, request, outcome, wrapper, trace, balVars>>

\* (a module that remembers the failed construction in place of the client)
GbCreateRemembering(th) ==
    /\ pc[th] = "gb_create"
    /\ LET made == CreateGetblockClient(mod[th], access_token) IN
        IF made.ok
        THEN /\ getblock_client' = UpdP(getblock_client, proc[th], mod[th], made.client)
             /\ pc' = UpdT(pc, th, "gb_send")
             /\ UNCHANGED handling
        ELSE /\ handling' = UpdT(handling, th, made.error)
             /\ pc' = UpdT(pc, th, "gb_parent")
             /\ getblock_client' = UpdP(getblock_client, proc[th], mod[th], [tag |-> "failed"])
    /\ UNCHANGED <<envVars, procVars, calls, proc, mod, currency, self, index, histVars,
                   addr, request, outcome, wrapper, trace,
                   use_getblock_for_balance, access_token>>

\* `self.getblock_client = create_getblock_client(currency=...)`; on an
\* exception the handler falls back to the parent
GbCreate(th) ==
    /\ pc[th] = "gb_create"
    /\ LET made == CreateGetblockClient(mod[th], access_token) IN
        IF made.ok
        THEN /\ getblock_client' = UpdP(getblock_client, proc[th], mod[th], made.client)
             /\ pc' = UpdT(pc, th, "gb_send")
             /\ UNCHANGED handling
        ELSE /\ handling' = UpdT(handling, th, made.error)
             /\ pc' = UpdT(pc, th, "gb_parent")
             /\ UNCHANGED getblock_client
    /\ UNCHANGED <<envVars, procVars, calls, proc, mod, currency, self, index, histVars,
                   addr, request, outcome, wrapper, trace,
                   use_getblock_for_balance, access_token>>

\* (a client that has the node import the address before listing its outputs)
GbSendImporting(th) ==
    /\ pc[th] = "gb_send"
    /\ request' = UpdT(request, th, Payload("importaddress", <<addr[th], "", FALSE>>))
    /\ trace' = UpdT(trace, th, Append(trace[th], request'[th]))
    /\ pc' = UpdT(pc, th, "gb_wait")
    /\ UNCHANGED <<envVars, procVars, calls, proc, mod, currency, self, index, histVars,
                   addr, handling, outcome, wrapper, balVars>>

\* get_address_balance(addr): _rpc_call("listunspent", [0, 9999999, [address]])
\* posts its request
GbSend(th) ==
    /\ pc[th] = "gb_send"
    /\ request' = UpdT(request, th,
                       Payload("listunspent", <<MinConf, MaxConf, <<addr[th]>> >>))
    /\ trace' = UpdT(trace, th, Append(trace[th], request'[th]))
    /\ pc' = UpdT(pc, th, "gb_wait")
    /\ UNCHANGED <<envVars, procVars, calls, proc, mod, currency, self, index, histVars,
                   addr, handling, outcome, wrapper, balVars>>

\* (a handler that logs the failure and lets it propagate)
GbReceiveNoFallback(th, resp) ==
    /\ pc[th] = "gb_wait"
    /\ request' = UpdT(request, th, NoRequest)
    /\ LET balance == GetAddressBalance(RpcCall(resp)) IN
        /\ outcome' = UpdT(outcome, th,
                           IF balance.ok
                           THEN [kind |-> "return", value |-> balance.value,
                                 source |-> "chain-data", response |-> resp]
                           ELSE [kind |-> "raise", error |-> balance.error,
                                 source |-> "chain-data", response |-> resp])
        /\ handling' = UpdT(handling, th, IF balance.ok THEN NoError ELSE balance.error)
    /\ pc' = UpdT(pc, th, "gb_return")
    /\ UNCHANGED <<envVars, procVars, calls, proc, mod, currency, self, index, histVars,
                   addr, wrapper, trace, balVars>>

\* the request ends (response or transport failure); get_address_balance
\* returns the balance, which getbalance returns, or raises, and the handler
\* of getbalance falls back to the parent
GbReceive(th, resp) ==
    /\ pc[th] = "gb_wait"
    /\ request' = UpdT(request, th, NoRequest)
    /\ LET balance == GetAddressBalance(RpcCall(resp)) IN
        IF balance.ok
        THEN /\ outcome' = UpdT(outcome, th, [kind |-> "return", value |-> balance.value,
                                              source |-> "chain-data", response |-> resp])
             /\ pc' = UpdT(pc, th, "gb_return")
             /\ UNCHANGED handling
        ELSE /\ handling' = UpdT(handling, th, balance.error)
             /\ pc' = UpdT(pc, th, "gb_parent")
             /\ UNCHANGED outcome
    /\ UNCHANGED <<envVars, procVars, calls, proc, mod, currency, self, index, histVars,
                   addr, wrapper, trace, balVars>>

\* `return super().getbalance(addr)`, in the else branch or in a handler
GbParent(th, out) ==
    /\ pc[th] = "gb_parent"
    /\ outcome' = UpdT(outcome, th,
                       IF out.ok
                       THEN [kind |-> "return", value |-> out.value,
                             source |-> "node-wallet", parent |-> out]
                       ELSE [kind |-> "raise", error |-> Raised(out.error, handling[th]),
                             source |-> "node-wallet", parent |-> out])
    /\ trace' = UpdT(trace, th, Append(trace[th], NodeWalletCall("getbalance")))
    /\ pc' = UpdT(pc, th, "gb_return")
    /\ UNCHANGED <<envVars, procVars, calls, proc, mod, currency, self, index, histVars,
                   addr, handling, request, wrapper, balVars>>

\* the caller of getbalance receives the balance or the exception
GbReturn(th) ==
    /\ pc[th] = "gb_return"
    /\ Finish(th)
    /\ UNCHANGED <<envVars, procVars, calls, histVars, balVars>>

\* the operator provides GETBLOCK_ACCESS_TOKEN (a secret file is mounted)
ProvideToken ==
    /\ access_token = "unset"
    /\ access_token' = "set"
    /\ UNCHANGED <<envVars, procVars, threadVars, histVars, balLocals,
                   use_getblock_for_balance, getblock_client>>

(***************************************************************************)
(* The typed methods of GetBlockClient, called on a client of their own.   *)
(***************************************************************************)
JObject(txid) == [j |-> "object", txid |-> txid]
JNumber(n) == [j |-> "number", n |-> n]
JString(hex) == [j |-> "string", hex |-> hex]
Txids == {"tx"}
BlockHeight == 850000

\* JSON-RPC error objects: the entity asked for is not there; another error
AbsentError == [absent |-> TRUE, message |-> "No such mempool or blockchain transaction"]
OtherError == [absent |-> FALSE, message |-> "Method not found"]

\* the calls: method and arguments
WrapperCalls ==
    {[name |-> n, address |-> a] :
        n \in {"get_address_balance", "get_address_transactions"}, a \in Addresses}
    \cup {[name |-> "get_transaction", txid |-> t] : t \in Txids}
    \cup {[name |-> "get_raw_transaction", txid |-> t, verbose |-> v] :
            t \in Txids, v \in BOOLEAN}
    \cup {[name |-> "get_block_count"]}

\* the request each method hands to _rpc_call
WrapperRequest(w) ==
    CASE w.name \in {"get_address_balance", "get_address_transactions"}
           -> Payload("listunspent", <<MinConf, MaxConf, <<w.address>> >>)
      [] w.name = "get_transaction" -> Payload("gettransaction", <<w.txid>>)
      [] w.name = "get_raw_transaction"
           -> Payload("getrawtransaction", <<w.txid, IF w.verbose THEN 1 ELSE 0>>)
      [] w.name = "get_block_count" -> Payload("getblockcount", <<>>)

\* the results the service may give to a request
Results(req) ==
    CASE req.method = "listunspent"
           -> {JList(u) : u \in UtxoLists}
      [] req.method = "gettransaction" -> {JObject(req.params[1])}
      [] req.method = "getrawtransaction"
           -> {IF req.params[2] = 1 THEN JObject(req.params[1]) ELSE JString(req.params[1])}
      [] req.method = "getblockcount" -> {JNumber(BlockHeight)}
\* what may come back for a request
ResponsesTo(req) ==
    {[http |-> "timeout"], [http |-> "status"], [http |-> "ok", json |-> FALSE]}
    \cup {[http |-> "ok", json |-> TRUE, data |-> d] :
            d \in {[result |-> JNull, error |-> AbsentError],
                   [result |-> JNull, error |-> OtherError],
                   [result |-> JNull, error |-> JNull]}
                  \cup {[result |-> r, error |-> JNull] : r \in Results(req)}}

\* every response to every request
ClientResponses == UNION {ResponsesTo(WrapperRequest(w)) : w \in WrapperCalls}

\* isinstance(e, ValueError): json.JSONDecodeError is a subclass of ValueError
IsValueError(error) == error.type \in {"ValueError", "json.JSONDecodeError"}
\* Python's None for JSON's null
PyNone == JNull

\* get_address_transactions, from the outcome of its _rpc_call on:
\* f"Found {len(utxos)} UTXOs ..." is evaluated before the list is returned
GetAddressTransactions(rpc) ==
    IF ~rpc.ok
    THEN rpc
    ELSE IF rpc.result.j \notin {"list", "string", "object"}
    THEN [ok |-> FALSE, error |-> Raised("TypeError", NoError)]
    ELSE [ok |-> TRUE, value |-> rpc.result]

\* get_transaction and get_raw_transaction: `except ValueError: return None`
GetTransaction(rpc) ==
    IF rpc.ok
    THEN [ok |-> TRUE, value |-> rpc.result]
    ELSE IF IsValueError(rpc.error)
    THEN [ok |-> TRUE, value |-> PyNone]
    ELSE rpc
GetRawTransaction(rpc) == GetTransaction(rpc)

\* get_block_count
GetBlockCount(rpc) ==
    IF rpc.ok THEN [ok |-> TRUE, value |-> rpc.result] ELSE rpc

\* the method called, applied to the outcome of its _rpc_call
WrapperResult(w, rpc) ==
    CASE w.name = "get_address_balance" -> GetAddressBalance(rpc)
      [] w.name = "get_address_transactions" -> GetAddressTransactions(rpc)
      [] w.name = "get_transaction" -> GetTransaction(rpc)
      [] w.name = "get_raw_transaction" -> GetRawTransaction(rpc)
      [] w.name = "get_block_count" -> GetBlockCount(rpc)

\* a method of the client is called
ClientCall(th, p, w) ==
    /\ Arrive(th, p)
    /\ wrapper' = UpdT(wrapper, th, w)
    /\ pc' = UpdT(pc, th, "cl_send")
    /\ UNCHANGED <<envVars, procVars, mod, currency, self, index, histVars,
                   addr, handling, request, outcome, trace, balVars>>

\* _rpc_call posts the request
ClSend(th) ==
    /\ pc[th] = "cl_send"
    /\ request' = UpdT(request, th, WrapperRequest(wrapper[th]))
    /\ trace' = UpdT(trace, th, Append(trace[th], request'[th]))
    /\ pc' = UpdT(pc, th, "cl_wait")
    /\ UNCHANGED <<envVars, procVars, calls, proc, mod, currency, self, index, histVars,
                   addr, handling, outcome, wrapper, balVars>>

\* (a client that posts the request once more when the transport failed)
ClReceiveRetrying(th, resp) ==
    /\ pc[th] = "cl_wait"
    /\ resp \in ResponsesTo(request[th])
    /\ request' = UpdT(request, th, NoRequest)
    /\ LET made == WrapperResult(wrapper[th], RpcCall(resp)) IN
        IF resp.http = "timeout" /\ Len(trace[th]) < 2
        THEN /\ pc' = UpdT(pc, th, "cl_send")
             /\ UNCHANGED outcome
        ELSE /\ outcome' = UpdT(outcome, th,
                                IF made.ok
                                THEN [kind |-> "return", value |-> made.value,
                                      response |-> resp]
                                ELSE [kind |-> "raise", error |-> made.error,
                                      response |-> resp])
             /\ pc' = UpdT(pc, th, "cl_return")
    /\ UNCHANGED <<envVars, procVars, calls, proc, mod, currency, self, index, histVars,
                   addr, handling, wrapper, trace, balVars>>

\* the request ends (response or transport failure): _rpc_call returns the
\* result or raises, and the method returns or raises in turn
ClReceive(th, resp) ==
    /\ pc[th] = "cl_wait"
    /\ resp \in ResponsesTo(request[th])
    /\ request' = UpdT(request, th, NoRequest)
    /\ LET made == WrapperResult(wrapper[th], RpcCall(resp)) IN
        outcome' = UpdT(outcome, th,
                        IF made.ok
                        THEN [kind |-> "return", value |-> made.value, response |-> resp]
                        ELSE [kind |-> "raise", error |-> made.error, response |-> resp])
    /\ pc' = UpdT(pc, th, "cl_return")
    /\ UNCHANGED <<envVars, procVars, calls, proc, mod, currency, self, index, histVars,
                   addr, handling, wrapper, trace, balVars>>

\* the caller of the method receives the value or the exception
ClReturn(th) ==
    /\ pc[th] = "cl_return"
    /\ Finish(th)
    /\ UNCHANGED <<envVars, procVars, calls, histVars, balVars>>

(***************************************************************************)
(* getaddrbytx: BtcHDWallet decodes the transaction the chain-data service *)
(* returns; LtcHDWallet defines no getaddrbytx and inherits its parent's.  *)
(***************************************************************************)
\* dict.get(key, default)
Get(d, key, default) == IF key \in DOMAIN d THEN d[key] ELSE default

\* the outputs a transaction may carry: to two addresses; to one address in
\* the "address" field of newer nodes; with an empty "addresses", an
\* "address" and no value; with both fields filled; with no address (a data
\* output)
Vouts ==
    {[value |-> 1, scriptPubKey |-> [addresses |-> <<"a1", "a2">>]],
     [value |-> 2, scriptPubKey |-> [address |-> "a1"]],
     [scriptPubKey |-> [addresses |-> <<>>, address |-> "a2"]],
     [value |-> 1, scriptPubKey |-> [addresses |-> <<"a1">>, address |-> "a2"]],
     [value |-> 0, scriptPubKey |-> [type |-> "nulldata"]]}
VoutLists == UNION {[1..n -> Vouts] : n \in 0..MaxVouts}
\* the decoded transactions: with and without "confirmations", with and
\* without "vout"
TxData(txid) ==
    {[j |-> "object", txid |-> txid]}
    \cup {[j |-> "object", txid |-> txid, vout |-> v] : v \in VoutLists}
    \cup {[j |-> "object", txid |-> txid, vout |-> v, confirmations |-> 3] :
            v \in VoutLists}
\* what may come back for the getrawtransaction of getaddrbytx
TxResponses ==
    {[http |-> "timeout"], [http |-> "status"], [http |-> "ok", json |-> FALSE]}
    \cup {[http |-> "ok", json |-> TRUE, data |-> d] :
            d \in {[result |-> JNull, error |-> AbsentError],
                   [result |-> JNull, error |-> JNull]}
                  \cup {[result |-> tx, error |-> JNull] :
                          tx \in UNION {TxData(t) : t \in Txids}}}

\* the entries of one output: lines 219-232
VoutEntries(vout, confirmations) ==
    LET script_pub_key == Get(vout, "scriptPubKey", EmptyDict)
        listed == Get(script_pub_key, "addresses", <<>>)
        addresses == IF listed = <<>> /\ "address" \in DOMAIN script_pub_key
                     THEN <<script_pub_key.address>>
                     ELSE listed
        amount == Decimal(Get(vout, "value", 0))
    IN  [i \in DOMAIN addresses |-> <<addresses[i], amount, confirmations, "receive">>]

\* (a decoding that stops after the first output)
DecodeFirstOutput(vouts, confirmations) ==
    IF vouts = <<>> THEN <<>> ELSE VoutEntries(Head(vouts), confirmations)
\* the loop over tx_data["vout"]: lines 214-232
RECURSIVE Decode(_, _)
Decode(vouts, confirmations) ==
    IF vouts = <<>> THEN <<>>
    ELSE VoutEntries(Head(vouts), confirmations) \o Decode(Tail(vouts), confirmations)

\* BtcHDWallet.getaddrbytx from the outcome of its _rpc_call on; app_context:
\* whether flask's current_app is bound where the method runs.  Every
\* exception is caught at line 244 and a ValueError raised in its handler.
GetAddrByTx(rpc, app_context) ==
    IF ~rpc.ok
    THEN [ok |-> FALSE, error |-> Raised("ValueError", rpc.error)]
    ELSE IF rpc.result.j # "object"
    THEN [ok |-> FALSE, error |-> Raised("ValueError", Raised("AttributeError", NoError))]
    ELSE IF ~app_context
    THEN [ok |-> FALSE, error |-> Raised("ValueError", Raised("RuntimeError", NoError))]
    ELSE [ok |-> TRUE,
          value |-> Decode(Get(rpc.result, "vout", <<>>),
                           Get(rpc.result, "confirmations", 0))]

\* getaddrbytx of the parent class (Btc, ltc): the node-wallet path
ParentTxOutcomes ==
    {[ok |-> TRUE, value |-> <<>>],
     [ok |-> TRUE, value |-> << <<"a1", Decimal(1), 3, "receive">> >>],
     [ok |-> FALSE, error |-> "NodeWalletError"]}

\* getaddrbytx entered: the method of BtcHDWallet (`if self.getblock_client
\* is None`), or the one LtcHDWallet inherits
GetaddrbytxCall(th, p, m, txid) ==
    /\ Arrive(th, p)
    /\ mod' = UpdT(mod, th, m)
    /\ wrapper' = UpdT(wrapper, th, [name |-> "getaddrbytx", txid |-> txid])
    /\ pc' = UpdT(pc, th, IF m # "BTC" THEN "gx_parent"
                          ELSE IF getblock_client[p][m] = NoClient THEN "gx_create"
                          ELSE "gx_send")
    /\ UNCHANGED <<envVars, procVars, currency, self, index, histVars,
                   addr, handling, request, outcome, trace, balVars>>

\* `self.getblock_client = create_getblock_client(currency="BTC")`; on an
\* exception ValueError("GetBlock.io not available") is raised, caught at line
\* 244 and replaced by ValueError("GetBlock.io transaction fetch failed")
GxCreate(th) ==
    /\ pc[th] = "gx_create"
    /\ LET made == CreateGetblockClient(mod[th], access_token) IN
        IF made.ok
        THEN /\ getblock_client' = UpdP(getblock_client, proc[th], mod[th], made.client)
             /\ pc' = UpdT(pc, th, "gx_send")
             /\ UNCHANGED outcome
        ELSE /\ outcome' = UpdT(outcome, th,
                                [kind |-> "raise",
                                 error |-> Raised("ValueError",
                                                  Raised("ValueError", made.error)),
                                 source |-> "chain-data"])
             /\ pc' = UpdT(pc, th, "gx_return")
             /\ UNCHANGED getblock_client
    /\ UNCHANGED <<envVars, procVars, calls, proc, mod, currency, self, index, histVars,
                   addr, handling, request, wrapper, trace,
                   use_getblock_for_balance, access_token>>

\* `self.getblock_client._rpc_call("getrawtransaction", [txid, True])` posts
\* its request
GxSend(th) ==
    /\ pc[th] = "gx_send"
    /\ request' = UpdT(request, th,
                       Payload("getrawtransaction", <<wrapper[th].txid, TRUE>>))
    /\ trace' = UpdT(trace, th, Append(trace[th], request'[th]))
    /\ pc' = UpdT(pc, th, "gx_wait")
    /\ UNCHANGED <<envVars, procVars, calls, proc, mod, currency, self, index, histVars,
                   addr, handling, outcome, wrapper, balVars>>

\* the request ends; the transaction is decoded and returned, or the
\* ValueError of line 249 raised
GxReceive(th, resp, app_context) ==
    /\ pc[th] = "gx_wait"
    /\ request' = UpdT(request, th, NoRequest)
    /\ LET made == GetAddrByTx(RpcCall(resp), app_context) IN
        outcome' = UpdT(outcome, th,
                        IF made.ok
                        THEN [kind |-> "return", value |-> made.value,
                              source |-> "chain-data", response |-> resp]
                        ELSE [kind |-> "raise", error |-> made.error,
                              source |-> "chain-data", response |-> resp])
    /\ pc' = UpdT(pc, th, "gx_return")
    /\ UNCHANGED <<envVars, procVars, calls, proc, mod, currency, self, index, histVars,
                   addr, handling, wrapper, trace, balVars>>

\* the inherited getaddrbytx answers or raises
GxParent(th, out) ==
    /\ pc[th] = "gx_parent"
    /\ outcome' = UpdT(outcome, th,
                       IF out.ok
                       THEN [kind |-> "return", value |-> out.value,
                             source |-> "node-wallet", parent |-> out]
                       ELSE [kind |-> "raise", error |-> Raised(out.error, NoError),
                             source |-> "node-wallet", parent |-> out])
    /\ trace' = UpdT(trace, th, Append(trace[th], NodeWalletCall("getaddrbytx")))
    /\ pc' = UpdT(pc, th, "gx_return")
    /\ UNCHANGED <<envVars, procVars, calls, proc, mod, currency, self, index, histVars,
                   addr, handling, request, wrapper, balVars>>

\* the caller of getaddrbytx receives the entries or the exception
GxReturn(th) ==
    /\ pc[th] = "gx_return"
    /\ Finish(th)
    /\ UNCHANGED <<envVars, procVars, calls, histVars, balVars>>

(***************************************************************************)
(* The environment: a worker process is restarted (its class-level state   *)
(* and modules are created anew, its threads are gone); the operator       *)
(* mounts the seed file.                                                   *)
(***************************************************************************)
Restart(p) ==
    /\ restarts < MaxRestarts
    /\ restarts' = restarts + 1
    /\ epoch' = [epoch EXCEPT ![p] = @ + 1]
    /\ lock' = [lock EXCEPT ![p] = NoThread]
    /\ index_counters' = [index_counters EXCEPT ![p] = EmptyDict]
    /\ hd_provider' = [hd_provider EXCEPT ![p] = [c \in Currencies |-> NoProvider]]
    /\ pc' = [th \in Threads |-> IF proc[th] = p THEN "done" ELSE pc[th]]
    /\ proc' = [th \in Threads |-> IF proc[th] = p THEN NoProc ELSE proc[th]]
    /\ mod' = [th \in Threads |-> IF proc[th] = p THEN None ELSE mod[th]]
    /\ currency' = [th \in Threads |-> IF proc[th] = p THEN None ELSE currency[th]]
    /\ self' = [th \in Threads |-> IF proc[th] = p THEN NoProvider ELSE self[th]]
    /\ index' = [th \in Threads |-> IF proc[th] = p THEN NoIndex ELSE index[th]]
    /\ addr' = [th \in Threads |-> IF proc[th] = p THEN None ELSE addr[th]]
    /\ handling' = [th \in Threads |-> IF proc[th] = p THEN NoError ELSE handling[th]]
    /\ request' = [th \in Threads |-> IF proc[th] = p THEN NoRequest ELSE request[th]]
    /\ outcome' = [th \in Threads |-> IF proc[th] = p THEN NoOutcome ELSE outcome[th]]
    /\ wrapper' = [th \in Threads |-> IF proc[th] = p THEN NoWrapper ELSE wrapper[th]]
    /\ trace' = [th \in Threads |-> IF proc[th] = p THEN <<>> ELSE trace[th]]
    /\ getblock_client' = [getblock_client EXCEPT ![p] = [c \in Currencies |-> NoClient]]
    /\ allocLog' = [allocLog EXCEPT ![p] = [c \in Currencies |-> <<>>]]
    /\ UNCHANGED <<envVars, calls, issued, derived, failed,
                   use_getblock_for_balance, access_token>>

MountSeed ==
    /\ seed_file = NoSeedFile
    /\ seed_file' = SeedFile
    /\ UNCHANGED <<encryption_key, network, procVars, threadVars, histVars, balLocals, balVars>>

\* the operator replaces an unusable seed file by the seed file of the vault
ReplaceSeed ==
    /\ seed_file.state = "file"
    /\ seed_file # SeedFile
    /\ seed_file' = SeedFile
    /\ UNCHANGED <<encryption_key, network, procVars, threadVars, histVars, balLocals, balVars>>

\* the operator provides the key of the vault (a secret file is mounted)
ProvideKey ==
    /\ encryption_key # VaultKey
    /\ encryption_key' = VaultKey
    /\ UNCHANGED <<seed_file, network, procVars, threadVars, histVars, balLocals, balVars>>

(***************************************************************************)
(* Address issuance in one worker process: any number of request threads   *)
(* (one per call) run mkaddr and derive_address_at_index concurrently.     *)
(***************************************************************************)
MainProc == CHOOSE p \in Procs : \A q \in Procs : p <= q

Step(th) ==
    \/ CreateProvider(th)
    \/ InitAcquire(th)
    \/ InitCounter(th)
    \/ InitRelease(th)
    \/ AssignProvider(th)
    \/ DnaAcquire(th)
    \/ DnaRead(th)
    \/ DnaIncr(th)
    \/ DnaRelease(th)
    \/ DnaDerive(th)

Next ==
    \/ \E th \in Threads, m \in Currencies : MkaddrCall(th, MainProc, m)
    \/ \E th \in Threads, m \in Currencies, i \in IndexArgs :
          DeriveAtIndexCall(th, MainProc, m, i)
    \/ \E th \in Threads, m \in Currencies : GetCurrentIndexCall(th, MainProc, m)
    \/ \E th \in Threads : GciReturn(th)
    \/ \E th \in Threads : Step(th)
    \/ MountSeed

Spec == Init /\ [][Next]_vars

(***************************************************************************)
(* Address issuance by several worker processes over the lifetime of the   *)
(* vault: each worker serves one request at a time and may be restarted.   *)
(***************************************************************************)
Idle(p) == \A th \in Threads : proc[th] # p

NextWorkers ==
    \/ \E th \in Threads, p \in Procs, m \in Currencies : Idle(p) /\ MkaddrCall(th, p, m)
    \/ \E th \in Threads : Step(th)
    \/ \E p \in Procs : Restart(p)
    \/ MountSeed

SpecWorkers == Init /\ [][NextWorkers]_vars

(***************************************************************************)
(* Balance queries and address issuance in one worker process with the     *)
(* seed in place: the threads of up to MaxRequests requests run getbalance *)
(* and mkaddr concurrently; the balance toggles and the access token are   *)
(* as deployed.                                                            *)
(***************************************************************************)
InitBalance ==
    /\ seed_file = SeedFile
    /\ encryption_key = VaultKey
    /\ network = "mainnet"
    /\ use_getblock_for_balance \in [Currencies -> BOOLEAN]
    /\ access_token \in {"unset", "set"}
    /\ Boot

BalStep(th) ==
    \/ GbCreate(th)
    \/ GbSend(th)
    \/ \E resp \in Responses : GbReceive(th, resp)
    \/ \E out \in ParentOutcomes : GbParent(th, out)
    \/ GbReturn(th)

NextBalance ==
    \/ \E th \in Threads, m \in Currencies, a \in Addresses :
          calls < MaxRequests /\ GetbalanceCall(th, MainProc, m, a)
    \/ \E th \in Threads, m \in Currencies :
          calls < MaxRequests /\ MkaddrCall(th, MainProc, m)
    \/ \E th \in Threads : BalStep(th)
    \/ \E th \in Threads : Step(th)
    \/ ProvideToken

SpecBalance == InitBalance /\ [][NextBalance]_vars

(***************************************************************************)
(* The chain-data client: calls of the typed methods of GetBlockClient and *)
(* of getbalance, each answered by the service in any of the ways it can.  *)
(***************************************************************************)
ClientStep(th) ==
    \/ ClSend(th)
    \/ \E resp \in ClientResponses : ClReceive(th, resp)
    \/ ClReturn(th)

NextClient ==
    \/ \E th \in Threads, w \in WrapperCalls :
          calls < MaxClientCalls /\ ClientCall(th, MainProc, w)
    \/ \E th \in Threads, m \in Currencies, a \in Addresses :
          calls < MaxClientCalls /\ GetbalanceCall(th, MainProc, m, a)
    \/ \E th \in Threads : ClientStep(th)
    \/ \E th \in Threads : BalStep(th)
    \/ ProvideToken

SpecClient == InitBalance /\ [][NextClient]_vars

(***************************************************************************)
(* The currency modules as their caller sees them: mkaddr, getbalance and  *)
(* getaddrbytx of both modules and the typed methods of the client, up to  *)
(* MaxRequests calls served one after another.                             *)
(***************************************************************************)
InitModule ==
    /\ seed_file \in {NoSeedFile, SeedFile}
    /\ encryption_key = VaultKey
    /\ network = "mainnet"
    /\ use_getblock_for_balance \in [Currencies -> BOOLEAN]
    /\ access_token \in {"unset", "set"}
    /\ Boot

\* no call is being served
Quiet == \A th \in Threads : pc[th] \in {"new", "done"}

TxStep(th) ==
    \/ GxCreate(th)
    \/ GxSend(th)
    \/ \E resp \in TxResponses, app_context \in BOOLEAN : GxReceive(th, resp, app_context)
    \/ \E out \in ParentTxOutcomes : GxParent(th, out)
    \/ GxReturn(th)

NextModule ==
    \/ \E th \in Threads, m \in Currencies :
          Quiet /\ calls < MaxRequests /\ MkaddrCall(th, MainProc, m)
    \/ \E th \in Threads, m \in Currencies, a \in Addresses :
          Quiet /\ calls < MaxRequests /\ GetbalanceCall(th, MainProc, m, a)
    \/ \E th \in Threads, m \in Currencies, t \in Txids :
          Quiet /\ calls < MaxRequests /\ GetaddrbytxCall(th, MainProc, m, t)
    \/ \E th \in Threads, w \in WrapperCalls :
          Quiet /\ calls < MaxRequests /\ ClientCall(th, MainProc, w)
    \/ \E th \in Threads : Step(th)
    \/ \E th \in Threads : BalStep(th)
    \/ \E th \in Threads : TxStep(th)
    \/ \E th \in Threads : ClientStep(th)
    \/ \E th \in Threads : DnaDeriveFails(th)
    \/ ProvideToken
    \/ MountSeed

SpecModule == InitModule /\ [][NextModule]_vars

(***************************************************************************)
(* Address requests and counter reads of one worker process when the       *)
(* derivation of an address may fail.                                      *)
(***************************************************************************)
NextDerive ==
    \/ \E th \in Threads, m \in Currencies :
          calls < MaxRequests /\ MkaddrCall(th, MainProc, m)
    \/ \E th \in Threads, m \in Currencies :
          calls < MaxRequests /\ GetCurrentIndexCall(th, MainProc, m)
    \/ \E th \in Threads : GciReturn(th)
    \/ \E th \in Threads : Step(th)
    \/ \E th \in Threads : DnaDeriveFails(th)
    \/ MountSeed

SpecDerive == Init /\ [][NextDerive]_vars

\* The same under fair scheduling: a thread that can take its next step
\* (for a thread at `with self._lock:`, the lock being free) is not passed
\* over forever.
ThreadStep(th) == Step(th) \/ GciReturn(th) \/ DnaDeriveFails(th)
SpecFair == SpecDerive /\ \A th \in Threads : WF_vars(ThreadStep(th))

(***************************************************************************)
(* load_secret (utils.py): the value of a secret, from the file a variable *)
(* of the environment names or else from a plain variable.  Texts are      *)
(* sequences of characters; the call is made with any environment and any  *)
(* state of the file at the path the file variable may name.               *)
(***************************************************************************)
MaxLoads == 1       \* calls of load_secret in the scenarios of SpecSecret

\* os.getenv: a text, or None when the variable is not set
Unset == [set |-> FALSE]
Str(t) == [set |-> TRUE, text |-> t]
\* `if secret_path:` -- None and the empty string are false
Truthy(v) == v.set /\ v.text # <<>>

RECURSIVE LStrip(_)
LStrip(t) == IF t # <<>> /\ Head(t) \in {" ", "\n"} THEN LStrip(Tail(t)) ELSE t
RECURSIVE RStrip(_)
RStrip(t) ==
    IF t # <<>> /\ t[Len(t)] \in {" ", "\n"} THEN RStrip(SubSeq(t, 1, Len(t) - 1)) ELSE t
\* str.strip(): leading and trailing whitespace removed
Strip(t) == RStrip(LStrip(t))

EnvVarName == "HD_WALLET_ENCRYPTION_KEY"
FileVarName == "HD_WALLET_ENCRYPTION_KEY_FILE"
\* os.environ
Environs ==
    {[n \in {EnvVarName, FileVarName} |-> IF n = EnvVarName THEN v ELSE f] :
        v \in {Unset, Str(<<>>), Str(<<"k">>), Str(<<" ", "k">>)},
        f \in {Unset, Str(<<>>), Str(<<"/", "s">>)}}
\* what is at the path /s: nothing; something below a directory the process may
\* not search; a directory; a file the process may not read; a file holding a
\* text; a file holding bytes that are not a text in the locale's encoding
Files ==
    {[kind |-> k] : k \in {"missing", "unsearchable", "directory", "unreadable"}}
    \cup {[kind |-> "file", decodable |-> TRUE, text |-> t] :
            t \in {<<>>, <<"k">>, <<"\n">>, <<" ", "k", "\n">>, <<"k", " ", "k", " ">>}}
    \cup {[kind |-> "file", decodable |-> FALSE]}

Getenv(environ, name) == IF name \in DOMAIN environ THEN environ[name] ELSE Unset
\* Path.exists(): stat() failing with ENOENT is False, with EACCES is raised
Exists(file) ==
    CASE file.kind = "missing" -> [ok |-> TRUE, value |-> FALSE]
      [] file.kind = "unsearchable" -> [ok |-> FALSE, error |-> "PermissionError"]
      [] OTHER -> [ok |-> TRUE, value |-> TRUE]
\* Path.read_text()
ReadText(file) ==
    CASE file.kind = "directory" -> [ok |-> FALSE, error |-> "IsADirectoryError"]
      [] file.kind = "unreadable" -> [ok |-> FALSE, error |-> "PermissionError"]
      [] file.kind = "file" /\ ~file.decodable -> [ok |-> FALSE, error |-> "UnicodeDecodeError"]
      [] OTHER -> [ok |-> TRUE, value |-> file.text]

LoadSecret(env_var_name, secret_file_var, environ, file) ==
    LET fallback == [kind |-> "return", value |-> Getenv(environ, env_var_name)] IN
    IF secret_file_var \in {None, ""}
    THEN fallback
    ELSE LET secret_path == Getenv(environ, secret_file_var) IN
         IF ~Truthy(secret_path)
         THEN fallback
         ELSE LET there == Exists(file) IN
              IF ~there.ok
              THEN [kind |-> "raise", error |-> RaisedBare(there.error, NoError)]
              ELSE IF ~there.value
              THEN fallback
              ELSE LET read == ReadText(file) IN
                   IF read.ok
                   THEN [kind |-> "return", value |-> Str(Strip(read.value))]
                   ELSE IF read.error \in {"IsADirectoryError", "PermissionError"}
                   THEN fallback      \* logged; falls through to line 23
                   ELSE [kind |-> "raise", error |-> RaisedBare(read.error, NoError)]

LoadSecretCall(th, p, secret_file_var, environ, file) ==
    /\ Arrive(th, p)
    /\ wrapper' = UpdT(wrapper, th, [name |-> "load_secret",
                                     env_var_name |-> EnvVarName,
                                     secret_file_var |-> secret_file_var,
                                     environ |-> environ, file |-> file])
    /\ outcome' = UpdT(outcome, th, LoadSecret(EnvVarName, secret_file_var, environ, file))
    /\ pc' = UpdT(pc, th, "ls_return")
    /\ UNCHANGED <<envVars, procVars, mod, currency, self, index, histVars,
                   addr, handling, request, trace, balVars>>

LsReturn(th) ==
    /\ pc[th] = "ls_return"
    /\ Finish(th)
    /\ UNCHANGED <<envVars, procVars, calls, histVars, balVars>>

NextSecret ==
    \/ \E th \in Threads, v \in {None, FileVarName}, environ \in Environs, file \in Files :
          calls < MaxLoads /\ LoadSecretCall(th, MainProc, v, environ, file)
    \/ \E th \in Threads : LsReturn(th)

SpecSecret == Init /\ [][NextSecret]_vars

(***************************************************************************)
(* Construction of the provider in one worker process under any            *)
(* configuration: the threads of up to MaxRequests requests call mkaddr or *)
(* create_hd_wallet_provider (with any currency ticker) while the operator *)
(* may repair the seed file and the key.                                   *)
(***************************************************************************)
NetworkValues == Networks \cup {"regtest"}
Tickers == Currencies \cup {"DOGE"}

InitVault ==
    /\ seed_file \in SeedFiles
    /\ encryption_key \in Keys
    /\ network \in NetworkValues
    /\ use_getblock_for_balance = [c \in Currencies |-> FALSE]
    /\ access_token = "unset"
    /\ Boot

NextVault ==
    \/ \E th \in Threads, m \in Currencies :
          calls < MaxRequests /\ MkaddrCall(th, MainProc, m)
    \/ \E th \in Threads, c \in Tickers :
          calls < MaxRequests /\ FactoryCall(th, MainProc, c)
    \/ \E th \in Threads : Step(th)
    \/ \E th \in Threads : FactoryReturn(th)
    \/ MountSeed
    \/ ReplaceSeed
    \/ ProvideKey

SpecVault == InitVault /\ [][NextVault]_vars

(***************************************************************************)
(* Properties of address issuance.                                         *)
(***************************************************************************)
\* the threads that hold an allocated index of currency c in process p
Allocated(p, c) ==
    {th \in Threads : proc[th] = p /\ mod[th] = c
                      /\ pc[th] \in {"dna_incr", "dna_unlock", "dna_derive"}}
\* the records of the addresses returned by the running incarnation of p for c
Returned(p, c) ==
    {r \in BagToSet(issued) : r.proc = p /\ r.epoch = epoch[p] /\ r.currency = c}
NoRepeat(seq) == \A i, j \in 1..Len(seq) : i # j => seq[i] # seq[j]
InCritical(th) == pc[th] \in {"init_counter", "init_unlock", "dna_read", "dna_incr", "dna_unlock"}

\* C1: in one process, whatever the interleaving of the threads, no two calls of
\* derive_next_address on providers of one currency read or return the same
\* index, and the counter still holds the value a thread read when that thread
\* increments it (read and increment are one atomic step).
C1_NoTwoCallsSameIndex ==
    \A c \in Currencies :
        /\ NoRepeat(allocLog[MainProc][c])
        /\ \A r \in Returned(MainProc, c) :
              /\ CopiesIn(r, issued) = 1
              /\ \A q \in Returned(MainProc, c) : q.index = r.index => q = r
        /\ \A th \in Threads :
              proc[th] = MainProc /\ mod[th] = c /\ pc[th] = "dna_incr"
                  => index_counters[MainProc][c] = index[th]
        /\ \A t1, t2 \in Allocated(MainProc, c) : t1 # t2 => index[t1] # index[t2]

\* two threads of the process hold indices of the same currency at the same
\* time, one of them still inside the critical section
C1_Witness ==
    \E t1, t2 \in Threads :
        /\ t1 # t2
        /\ proc[t1] = MainProc /\ proc[t2] = MainProc
        /\ mod[t1] = mod[t2]
        /\ pc[t1] = "dna_derive" /\ pc[t2] = "dna_incr"
        /\ index[t1] # index[t2]

C3_NoTwoInvoicesSameAddress ==
    \A r \in BagToSet(issued) :
        /\ CopiesIn(r, issued) = 1
        /\ \A q \in BagToSet(issued) :
              (q # r /\ q.currency = r.currency /\ q.network = r.network)
                  => q.address # r.address

\* C4: an index issued for a currency by a worker is not issued again by a later
\* incarnation of that worker (after a restart).
C4_NeverReissuedAfterRestart ==
    \A r, q \in BagToSet(issued) :
        (r.proc = q.proc /\ r.currency = q.currency /\ r.epoch # q.epoch)
            => r.index # q.index

\* C5: callers in different worker processes that hold an index of the same
\* currency at the same time hold different indices.
C5_NoTwoProcessesSameIndex ==
    \A t1, t2 \in Threads :
        (/\ t1 # t2
         /\ proc[t1] # NoProc /\ proc[t2] # NoProc /\ proc[t1] # proc[t2]
         /\ mod[t1] = mod[t2]
         /\ pc[t1] \in {"dna_incr", "dna_unlock", "dna_derive"}
         /\ pc[t2] \in {"dna_incr", "dna_unlock", "dna_derive"})
            => index[t1] # index[t2]

\* C6: the lock of a process is held only by a thread of that process that is
\* initialising, reading or incrementing the counter; a thread that is deriving
\* an address, or that has a chain-data request in flight, does not hold it.
C6_LockOnlyAroundCounter ==
    /\ \A p \in Procs :
          lock[p] # NoThread => proc[lock[p]] = p /\ InCritical(lock[p])
    /\ \A th \in Threads :
          (pc[th] = "dna_derive" \/ request[th] # NoRequest)
              => \A p \in Procs : lock[p] # th

\* one thread is deriving the address of the index it allocated while another
\* has its listunspent request in flight
C6_Witness ==
    \E t1, t2 \in Threads :
        /\ pc[t1] = "dna_derive" /\ index[t1] # NoIndex
        /\ pc[t2] = "gb_wait" /\ request[t2] # NoRequest

Returning == {th \in Threads : pc[th] = "gb_return"}
ChainFailures ==
    {"ValueError", "httpx.TimeoutException", "httpx.HTTPStatusError",
     "json.JSONDecodeError", "KeyError"}
\* the service answered the request (2xx, JSON, no error object)
Answered(resp) ==
    /\ resp.http = "ok"
    /\ resp.json
    /\ ("error" \in DOMAIN resp.data => resp.data.error = JNull)
\* ... and its answer lists no unspent output
NoUnspent(resp) ==
    \/ "result" \notin DOMAIN resp.data
    \/ resp.data.result = JNull
    \/ resp.data.result = JList(<<>>)

\* C8: when the chain-data path of a balance query has failed (construction of
\* the client, timeout or any other failure), the node-wallet path is asked, and
\* if it answers, getbalance returns its answer; an error reaches the caller
\* only from a node-wallet path that failed.
C8_FallbackResultReturned ==
    \A th \in Returning :
        /\ handling[th] # NoError
              => /\ outcome[th].source = "node-wallet"
                 /\ outcome[th].parent.ok
                       => /\ outcome[th].kind = "return"
                          /\ outcome[th].value = outcome[th].parent.value
        /\ outcome[th].kind = "raise"
              => outcome[th].source = "node-wallet" /\ ~outcome[th].parent.ok

\* the request timed out and getbalance returns the non-zero balance of the
\* node wallet
C8_Witness ==
    \E th \in Returning :
        /\ use_getblock_for_balance[mod[th]]
        /\ handling[th].type = "httpx.TimeoutException"
        /\ outcome[th].kind = "return"
        /\ outcome[th].source = "node-wallet"
        /\ outcome[th].value = Decimal(5)

ConfigurationGood ==
    seed_file = SeedFile /\ encryption_key = VaultKey /\ network \in Networks
\* thread th runs mkaddr
InMkaddr(th) == mod[th] # None /\ currency[th] # None
\* the configuration error mkaddr raises
ConfigurationErrors ==
    {f \in failed : f.op = "mkaddr" /\ f.error.type = "ValueError"
                    /\ f.error.message = "HD wallet configuration error"}

Underlying(f) == IF f.op = "mkaddr" THEN f.cause ELSE f.error
\* thread th leaves the construction of the provider in this step
Constructs(th) == pc[th] = "create" /\ pc'[th] # "create"
\* the construction of thread th reaches _load_master_key
ReachesLoad(th) ==
    /\ seed_file.state # "unset" /\ encryption_key # "unset"
    /\ currency[th] \in DOMAIN BIP44_PATHS /\ network \in Networks
\* thread th's construction fails in this step with an exception of the
\* given types and messages, after the given library calls and no others,
\* leaving no provider and the counters as they were
FailsWith(th, types, messages, steps) ==
    /\ pc'[th] = "done"
    /\ self'[th] = NoProvider
    /\ hd_provider' = hd_provider
    /\ index_counters' = index_counters
    /\ \E f \in failed' :
          /\ f.op = IF mod[th] = None THEN "create_hd_wallet_provider" ELSE "mkaddr"
          /\ Underlying(f).type \in types
          /\ Underlying(f).message \in messages
          /\ f.steps \in steps
UpToDecrypt == <<"exists", "Fernet", "read_bytes", "decrypt">>

C14_InvalidMnemonicFails ==
    [][\A th \in Threads :
          (/\ Constructs(th) /\ ReachesLoad(th)
           /\ seed_file.state = "file"
           /\ seed_file.intact /\ seed_file.fernet = encryption_key
           /\ \/ Len(seed_file.plaintext) \notin {12, 15, 18, 21, 24}
              \/ \E i \in DOMAIN seed_file.plaintext : seed_file.plaintext[i] \notin Wordlist
              \/ seed_file.plaintext \notin ValidPhrases)
              => FailsWith(th, {"ValueError"},
                           {"Invalid BIP39 seed phrase", "Invalid BIP39 mnemonic phrase"},
                           {UpToDecrypt})
      ]_vars

\* a phrase of 13 words, or one of 12 words with a wrong checksum or an
\* unknown word, was refused
C14_Witness ==
    /\ seed_file.state = "file"
    /\ seed_file.plaintext \in {Words13, WrongChecksum, UnknownWord}
    /\ \E f \in failed :
          Underlying(f).message =
              IF seed_file.plaintext = Words13 THEN "Invalid BIP39 seed phrase"
              ELSE "Invalid BIP39 mnemonic phrase"

\* C15: when no file is at the seed path, the load fails with the not-found
\* error after the existence test alone: no cipher is built and nothing is
\* decrypted, whether the key is malformed, wrong or right.
C15_AbsentFileNotFound ==
    [][\A th \in Threads :
          (Constructs(th) /\ ReachesLoad(th) /\ seed_file = NoSeedFile)
              => FailsWith(th, {"FileNotFoundError"}, {"Encrypted seed file not found"},
                           {<<"exists">>})
      ]_vars

\* the absent file was reported to a caller that held a malformed key
C15_Witness ==
    /\ seed_file = NoSeedFile
    /\ encryption_key = "malformed"
    /\ \E f \in failed : Underlying(f).type = "FileNotFoundError"

\* the messages of the errors of an unsupported currency or network
UnsupportedMessages == {"Unsupported currency", "Invalid network"}

\* C16: the error of an unsupported currency or network is of a kind of its
\* own: no invalid-mnemonic error and no configuration error has its type.
C16_UnsupportedConfigurationDistinct ==
    \A f \in failed : \A g \in failed :
        (/\ Underlying(f).message \in UnsupportedMessages
         /\ Underlying(g).message \notin UnsupportedMessages)
            => /\ Underlying(f).type # Underlying(g).type
               /\ Underlying(f).type # g.error.type

\* C16: the error of an unsupported currency or network is raised before the
\* seed file is looked at, and leaves the counters as they were.
C16_UnsupportedBeforeSeedRead ==
    [][\A th \in Threads :
          (/\ Constructs(th)
           /\ seed_file.state # "unset" /\ encryption_key # "unset"
           /\ (currency[th] \notin DOMAIN BIP44_PATHS \/ network \notin Networks))
              => FailsWith(th, {"ValueError"}, UnsupportedMessages, {<<>>})
      ]_vars

(***************************************************************************)
(* Properties of the chain-data client.                                    *)
(***************************************************************************)
\* the requests thread th has posted and the parent calls it has made
RpcRequests(th) == SelectSeq(trace[th], LAMBDA e : "method" \in DOMAIN e)
NodeAttempts(th) == SelectSeq(trace[th], LAMBDA e : "node" \in DOMAIN e)
\* the threads about to hand the outcome of a client method to the caller
ClientReturning(names) ==
    {th \in Threads : pc[th] = "cl_return" /\ wrapper[th].name \in names}
\* the service reports that the entity asked for is not there
EntityAbsent(resp) ==
    /\ resp.http = "ok"
    /\ resp.json
    /\ resp.data.error = AbsentError
\* the service answers with nothing: a null result, or an empty list
AnswersEmpty(resp) ==
    /\ Answered(resp)
    /\ resp.data.result \in {JNull, JList(<<>>)}

\* C17: no call posts a request twice: a call of a typed method of the client
\* has posted nothing before _rpc_call and exactly its one request from then
\* on, whatever came back; a getbalance has posted at most one request and
\* called the parent's getbalance at most once.
C17_NoRetry ==
    \A th \in Threads :
        /\ Len(RpcRequests(th)) <= 1
        /\ Len(NodeAttempts(th)) <= 1
        /\ pc[th] = "cl_send" => trace[th] = <<>>
        /\ pc[th] \in {"cl_wait", "cl_return"}
              => trace[th] = <<WrapperRequest(wrapper[th])>>

\* a method of the client raises the timeout of its one request
C17_Witness ==
    \E th \in Threads :
        /\ pc[th] = "cl_return"
        /\ outcome[th].kind = "raise"
        /\ outcome[th].response.http = "timeout"
        /\ Len(RpcRequests(th)) = 1

\* C18: get_transaction and get_raw_transaction return the absent value
\* exactly when the service reported the entity absent (by its error, or by a
\* null result); a timeout, a non-2xx status, a body that is not JSON and any
\* other RPC error are raised.
C18_AbsentOnlyWhenReportedAbsent ==
    \A th \in ClientReturning({"get_transaction", "get_raw_transaction"}) :
        LET resp == outcome[th].response IN
        IF EntityAbsent(resp) \/ (Answered(resp) /\ resp.data.result = JNull)
        THEN outcome[th].kind = "return" /\ outcome[th].value = PyNone
        ELSE IF Answered(resp)
        THEN outcome[th].kind = "return" /\ outcome[th].value = resp.data.result
        ELSE outcome[th].kind = "raise"

\* C19: when the service reports the entity absent, or answers with a null
\* or empty result, get_address_balance returns 0 and
\* get_address_transactions returns the empty list; neither raises.
C19_AbsentGivesEmpty ==
    \A th \in ClientReturning({"get_address_balance", "get_address_transactions"}) :
        LET resp == outcome[th].response IN
        (EntityAbsent(resp) \/ AnswersEmpty(resp))
            => /\ outcome[th].kind = "return"
               /\ outcome[th].value =
                     IF wrapper[th].name = "get_address_balance"
                     THEN Decimal(0) ELSE JList(<<>>)

\* C20: when the service answers that the address has no unspent output,
\* get_address_balance returns the balance 0 and raises nothing; so does a
\* getbalance that took the chain-data path.
C20_NoUnspentIsZero ==
    /\ \A th \in ClientReturning({"get_address_balance"}) :
          LET resp == outcome[th].response IN
          (Answered(resp) /\ resp.data.result = JList(<<>>))
              => /\ outcome[th].kind = "return"
                 /\ outcome[th].value = Decimal(0)
    /\ \A th \in Returning :
          (/\ outcome[th].source = "chain-data"
           /\ "result" \in DOMAIN outcome[th].response.data
           /\ outcome[th].response.data.result = JList(<<>>))
              => /\ outcome[th].kind = "return"
                 /\ outcome[th].value = Decimal(0)

\* get_address_balance is about to return 0 for an answer with no unspent
\* output
C20_Witness ==
    \E th \in ClientReturning({"get_address_balance"}) :
        /\ outcome[th].response.http = "ok"
        /\ outcome[th].response.json
        /\ outcome[th].response.data = [result |-> JList(<<>>), error |-> JNull]
        /\ outcome[th].value = Decimal(0)

\* the sum of the amounts at the positions S of a list of unspent outputs
RECURSIVE TotalAt(_, _)
TotalAt(items, S) ==
    IF S = {} THEN 0
    ELSE LET i == CHOOSE k \in S : TRUE IN items[i].amount + TotalAt(items, S \ {i})

\* C21: get_address_balance asks for the unspent outputs of the address with
\* 0 as the minimum and 9999999 as the maximum number of confirmations, and
\* returns the sum of the amounts of the outputs of the answer, each position
\* of the list counted once.
C21_BalanceIsSumOfUnspent ==
    \A th \in ClientReturning({"get_address_balance"}) :
        LET resp == outcome[th].response IN
        /\ trace[th] = <<[jsonrpc |-> "2.0", method |-> "listunspent",
                          params |-> <<0, 9999999, <<wrapper[th].address>> >>,
                          id |-> 1]>>
        /\ (Answered(resp) /\ resp.data.result # JNull)
              => /\ outcome[th].kind = "return"
                 /\ outcome[th].value =
                       Decimal(TotalAt(resp.data.result.items,
                                       DOMAIN resp.data.result.items))

\* the answer lists two outputs of the same amount and the balance is their
\* sum
C21_Witness ==
    \E th \in ClientReturning({"get_address_balance"}) :
        /\ Answered(outcome[th].response)
        /\ outcome[th].response.data.result =
              JList(<<[txid |-> "tx", amount |-> 2], [txid |-> "tx", amount |-> 2]>>)
        /\ outcome[th].value = Decimal(4)

(***************************************************************************)
(* Properties of the currency modules.                                     *)
(***************************************************************************)
\* the threads about to hand the outcome of getaddrbytx to the caller
TxReturning == {th \in Threads : pc[th] = "gx_return"}
\* the addresses an output resolves to
Resolved(vout) ==
    IF "scriptPubKey" \notin DOMAIN vout THEN <<>>
    ELSE IF "addresses" \in DOMAIN vout.scriptPubKey /\ vout.scriptPubKey.addresses # <<>>
    THEN vout.scriptPubKey.addresses
    ELSE IF "address" \in DOMAIN vout.scriptPubKey
    THEN <<vout.scriptPubKey.address>>
    ELSE <<>>
\* the (output, address) pairs of a list of outputs
Pairs(vouts) ==
    UNION {{<<k, i>> : i \in DOMAIN Resolved(vouts[k])} : k \in DOMAIN vouts}
\* the place of a pair among the pairs, outputs in their order
Place(vouts, pr) ==
    Cardinality({q \in Pairs(vouts) : q[1] < pr[1]}) + pr[2]

\* C22: the entries getaddrbytx of the BTC module returns for a transaction
\* are, in the order of the outputs, one per (output, address) pair: the
\* address, the amount of that output (0 when it has none), the confirmations
\* of the transaction (0 when it has none) and "receive"; an output that
\* resolves to no address has no entry.
C22_OneEntryPerOutputAddress ==
    \A th \in TxReturning :
        (outcome[th].source = "chain-data" /\ outcome[th].kind = "return")
            => LET tx == outcome[th].response.data.result
                   vouts == IF "vout" \in DOMAIN tx THEN tx.vout ELSE <<>>
                   confirmations == IF "confirmations" \in DOMAIN tx
                                    THEN tx.confirmations ELSE 0
               IN  /\ Len(outcome[th].value) = Cardinality(Pairs(vouts))
                   /\ \A pr \in Pairs(vouts) :
                         outcome[th].value[Place(vouts, pr)] =
                             <<Resolved(vouts[pr[1]])[pr[2]],
                               Decimal(IF "value" \in DOMAIN vouts[pr[1]]
                                       THEN vouts[pr[1]].value ELSE 0),
                               confirmations, "receive">>

\* a transaction of an output to two addresses and an output to none, with 3
\* confirmations, was decoded into two entries
C22_Witness ==
    \E th \in TxReturning :
        /\ outcome[th].kind = "return"
        /\ outcome[th].source = "chain-data"
        /\ outcome[th].response =
              [http |-> "ok", json |-> TRUE,
               data |-> [error |-> JNull,
                         result |->
                           [j |-> "object", txid |-> wrapper[th].txid, confirmations |-> 3,
                            vout |-> <<[value |-> 1,
                                        scriptPubKey |-> [addresses |-> <<"a1", "a2">>]],
                                       [value |-> 0,
                                        scriptPubKey |-> [type |-> "nulldata"]]>>]]]
        /\ outcome[th].value = << <<"a1", Decimal(1), 3, "receive">>,
                                  <<"a2", Decimal(1), 3, "receive">> >>

\* C23: an address request has nothing to do with the chain-data client: no
\* step of mkaddr, from its call to its return or raise, posts a request or
\* constructs or replaces the client of any module, whether the provider is
\* unset, under construction or ready and whether a client exists or not.
C23_MkaddrNeverUsesChainData ==
    [][\A th \in Threads :
          (pc'[th] # pc[th] /\ (InMkaddr(th) \/ InMkaddr(th)'))
              => /\ getblock_client' = getblock_client
                 /\ request' = request
                 /\ request[th] = NoRequest
                 /\ trace[th] = <<>> /\ trace'[th] = <<>>
      ]_vars

\* a mkaddr call is deriving its address in a module whose chain-data client
\* exists and is preferred for balances
C23_Witness ==
    \E th \in Threads :
        /\ InMkaddr(th)
        /\ pc[th] = "dna_derive"
        /\ getblock_client[MainProc][mod[th]] # NoClient
        /\ use_getblock_for_balance[mod[th]]
        /\ trace[th] = <<>>

\* the methods that read the chain and change nothing
ReadOnlyMethods == {"listunspent", "gettransaction", "getrawtransaction", "getblockcount"}

\* C24: every request posted to the chain-data endpoint, by a typed method of
\* the client, by getbalance or by getaddrbytx, in flight or already answered,
\* calls listunspent, gettransaction, getrawtransaction or getblockcount.
C24_OnlyReadOnlyMethods ==
    \A th \in Threads :
        /\ request[th] # NoRequest => request[th].method \in ReadOnlyMethods
        /\ \A i \in DOMAIN trace[th] :
              "method" \in DOMAIN trace[th][i] => trace[th][i].method \in ReadOnlyMethods

\* the raw-transaction lookup of getaddrbytx is in flight, after an earlier
\* call
C24_Witness ==
    \E th \in Threads :
        /\ pc[th] = "gx_wait"
        /\ request[th].method = "getrawtransaction"
        /\ getblock_client[MainProc]["BTC"] # NoClient
        /\ calls = 2

\* the lookups of incoming outputs by transaction of module m about to return
LookupReturning(m) ==
    {th \in Threads : pc[th] = "gx_return" /\ wrapper[th].name = "getaddrbytx"
                                          /\ mod[th] = m}
\* a lookup that was answered as BtcHDWallet.getaddrbytx answers it: from the
\* chain-data endpoint alone
FromChainData(th) ==
    /\ outcome[th].source = "chain-data"
    /\ NodeAttempts(th) = <<>>
    /\ \A i \in DOMAIN RpcRequests(th) : RpcRequests(th)[i].method = "getrawtransaction"

\* C25: the two currency modules answer a lookup of incoming outputs by
\* transaction the same way: in either module the answer comes from the
\* chain-data endpoint's raw transaction and the node wallet is never asked.
C25_SameLookupInBothModules ==
    \A m \in Currencies : \A th \in LookupReturning(m) : FromChainData(th)

\* the thread is inside getbalance
InGetbalance(th) == pc[th] \in {"gb_create", "gb_send", "gb_wait", "gb_parent", "gb_return"}
\* what the toggle of the thread's module allows a balance query to have done
TogglePolicy(th) ==
    InGetbalance(th) =>
        IF ~use_getblock_for_balance[mod[th]]
        THEN \* node-wallet path: nothing of the chain-data client
             /\ pc[th] \in {"gb_parent", "gb_return"}
             /\ RpcRequests(th) = <<>>
             /\ request[th] = NoRequest
             /\ pc[th] = "gb_return" => outcome[th].source = "node-wallet"
        ELSE \* chain-data path: the node wallet only after the chain-data
             \* attempt failed, and not at all when it succeeded
             /\ pc[th] = "gb_parent" => handling[th] # NoError
             /\ NodeAttempts(th) # <<>> => handling[th] # NoError
             /\ (pc[th] = "gb_return" /\ outcome[th].source = "chain-data")
                    => /\ NodeAttempts(th) = <<>>
                       /\ handling[th] = NoError
                       /\ outcome[th].kind = "return"
                       /\ Len(RpcRequests(th)) = 1
                       /\ GetAddressBalance(RpcCall(outcome[th].response))
                            = [ok |-> TRUE, value |-> outcome[th].value]

\* C26: with the toggle on the node-wallet path (the default), no step of a
\* balance query constructs the chain-data client or posts a request to it, and
\* the answer is the node wallet's; with the toggle on the chain-data path, the
\* node wallet is asked only after the chain-data attempt has failed, and a
\* successful chain-data answer is returned without asking the node wallet.
C26_ToggleSelectsBalancePath ==
    [][\A th \in Threads :
          /\ TogglePolicy(th) /\ TogglePolicy(th)'
          /\ (pc'[th] # pc[th] /\ (InGetbalance(th) \/ InGetbalance(th)')
                /\ ~use_getblock_for_balance[IF InGetbalance(th) THEN mod[th] ELSE mod'[th]])
                => getblock_client' = getblock_client
      ]_vars

\* a balance query on the chain-data path about to return the endpoint's sum
C26_Witness ==
    \E th \in Threads :
        /\ pc[th] = "gb_return" /\ use_getblock_for_balance[mod[th]]
        /\ outcome[th].source = "chain-data" /\ outcome[th].value = Decimal(2)
        /\ NodeAttempts(th) = <<>>
        /\ ~use_getblock_for_balance[IF mod[th] = "BTC" THEN "LTC" ELSE "BTC"]

\* a step of get_current_index (entered or returning) or the whole of
\* derive_address_at_index, by thread th
NonAllocatingStep(th) ==
    /\ pc'[th] # pc[th]
    /\ \/ pc[th] = "gci_return" \/ pc'[th] = "gci_return"
       \/ pc[th] = "new" /\ pc'[th] = "done"
\* the index the next derive_next_address of currency c in process p issues
NextIndex(p, c) == IF c \in DOMAIN index_counters[p] THEN index_counters[p][c] ELSE NoIndex

\* C27: derive_address_at_index and get_current_index allocate nothing: their
\* steps leave every counter of every currency as it was and record no
\* allocation, so the next derive_next_address issues the index it would have
\* issued without them; get_current_index reports that index.
C27_NonAllocating ==
    [][\A th \in Threads :
          NonAllocatingStep(th)
              => /\ index_counters' = index_counters
                 /\ allocLog' = allocLog /\ issued' = issued
                 /\ \A p \in Procs, c \in Currencies : NextIndex(p, c)' = NextIndex(p, c)
                 /\ pc'[th] = "gci_return"
                       => index'[th] = NextIndex(proc'[th], self'[th].currency)
      ]_vars

\* get_current_index reports 1 after one allocation and an address derived at
\* a chosen index
C27_Witness ==
    \E th \in Threads :
        /\ pc[th] = "gci_return" /\ index[th] = 1
        /\ derived # {}
        /\ index_counters[MainProc][self[th].currency] = 1

\* thread th takes the step that leaves program point at
Leaves(th, at) == pc[th] = at /\ pc'[th] # at

\* C28: the counters are one per currency and belong to the process, not to a
\* provider instance: whichever instance allocates reads and advances the
\* counter of its currency; constructing an instance for a currency that has a
\* counter leaves the counters as they are; no step removes or lowers a
\* counter; an allocation changes the counter of its own currency only.
C28_OneCounterPerCurrency ==
    [][\A p \in Procs :
          LET old == index_counters[p]
              new == index_counters'[p] IN
          /\ DOMAIN old \subseteq DOMAIN new
          /\ \A c \in DOMAIN old : new[c] >= old[c]
          /\ \A c \in DOMAIN new \ DOMAIN old : new[c] = 0
          /\ \A th \in Threads :
                proc[th] = p =>
                  /\ Leaves(th, "init_counter") /\ self[th].currency \in DOMAIN old
                        => new = old
                  /\ Leaves(th, "dna_read") => index'[th] = old[self[th].currency]
                  /\ Leaves(th, "dna_incr")
                        => /\ new[self[th].currency] = old[self[th].currency] + 1
                           /\ \A c \in DOMAIN old \ {self[th].currency} : new[c] = old[c]
      ]_vars

\* a further provider of BTC has been constructed after one BTC address was
\* allocated, and the counter still stands at 1
C28_Witness ==
    \E th \in Threads :
        /\ pc[th] = "init_unlock" /\ self[th].currency = "BTC"
        /\ hd_provider[MainProc]["BTC"] # NoProvider
        /\ "BTC" \in DOMAIN index_counters[MainProc]
        /\ index_counters[MainProc]["BTC"] = 1

\* the secrets as text: the words of the mnemonic and the decryption key
SecretStrings == {Mnemonic[i] : i \in DOMAIN Mnemonic} \cup {VaultKey, encryption_key}
\* the address the caller of thread th's method passed
CallerAddress(th) == IF wrapper[th] = NoWrapper THEN addr[th] ELSE wrapper[th].address
\* request req of thread th has the parameters its method takes, made of the
\* caller's argument and fixed flags
CallerSupplied(th, req) ==
    CASE req.method = "listunspent"
           -> /\ Len(req.params) = 3
              /\ req.params[1] = MinConf /\ req.params[2] = MaxConf
              /\ req.params[3] = <<CallerAddress(th)>>
              /\ req.params[3] # Mnemonic
              /\ CallerAddress(th) \notin SecretStrings
      [] req.method = "gettransaction"
           -> /\ req.params = <<wrapper[th].txid>>
              /\ wrapper[th].txid \notin SecretStrings
      [] req.method = "getrawtransaction"
           -> /\ Len(req.params) = 2
              /\ req.params[1] = wrapper[th].txid
              /\ wrapper[th].txid \notin SecretStrings
              /\ IF wrapper[th].name = "getaddrbytx"
                 THEN req.params[2] = TRUE
                 ELSE req.params[2] \in {0, 1}
      [] req.method = "getblockcount" -> req.params = <<>>
      [] OTHER -> FALSE

\* C29: a request to the chain-data endpoint consists of the protocol version,
\* a method name, an id and parameters; the method name is no secret and the
\* parameters are the address or transaction id the caller passed and fixed
\* numeric or boolean flags: no word of the mnemonic, no root key, no
\* decryption key.
C29_RequestsCarryNoSecret ==
    \A th \in Threads : \A i \in DOMAIN RpcRequests(th) :
        LET req == RpcRequests(th)[i] IN
        /\ DOMAIN req = {"jsonrpc", "method", "params", "id"}
        /\ req.jsonrpc = "2.0" /\ req.id = 1
        /\ req.method \notin SecretStrings
        /\ CallerSupplied(th, req)

\* a raw-transaction lookup is in flight in a process that holds the root key
C29_Witness ==
    \E th \in Threads :
        /\ pc[th] = "gx_wait" /\ RpcRequests(th) # <<>>
        /\ hd_provider[MainProc]["BTC"] # NoProvider
        /\ hd_provider[MainProc]["BTC"].master_key = MasterKey(Mnemonic)
        /\ encryption_key = VaultKey

\* the messages and log lines a failed load left behind: the message of the
\* exception the caller got and, from mkaddr, the logged line
TextsOf(f) ==
    IF f.op = "mkaddr"
    THEN {MkaddrErrorLog(f.cause), MkaddrErrorMessage(f.cause)}
    ELSE {ErrorText(f.error)}
\* a piece of text that gives away words of the stored phrase, as they are or
\* as the entropy they encode
GivesAwayPhrase(piece) == "word" \in DOMAIN piece \/ "entropy" \in DOMAIN piece

\* C30: no log line and no error message of a failed load, whether the file
\* was missing, the decryption failed, the word count was wrong or the
\* mnemonic did not validate, contains a word of the seed phrase.
C30_NoSecretInMessages ==
    \A f \in failed : \A t \in TextsOf(f) : \A i \in DOMAIN t : ~GivesAwayPhrase(t[i])

(***************************************************************************)
(* Properties of concurrent and failing address requests.                  *)
(***************************************************************************)
\* the threads of module c that are past the assignment of the provider
PastAssign(c) ==
    {th \in Threads : proc[th] = MainProc /\ mod[th] = c
        /\ pc[th] \in {"dna_lock", "dna_read", "dna_incr", "dna_unlock", "dna_derive"}}

\* C32: first address requests racing on a module without provider may each
\* construct one; still the counter of the currency is set to 0 once and
\* counts on from there (the indices read are 0, 1, 2, ... in order, each
\* read once), the indices held and returned are pairwise distinct, and as
\* soon as one request is past the assignment the module has its provider.
C32_RacingFirstRequests ==
    \A c \in Currencies :
        LET log == allocLog[MainProc][c] IN
        /\ \A i \in DOMAIN log : log[i] = i - 1
        /\ c \in DOMAIN index_counters[MainProc]
              => index_counters[MainProc][c] \in {Len(log), Len(log) - 1}
        /\ \A t1, t2 \in PastAssign(c) :
              (t1 # t2 /\ index[t1] # NoIndex /\ index[t2] # NoIndex)
                  => index[t1] # index[t2]
        /\ \A t \in PastAssign(c) : \A r \in Returned(MainProc, c) :
              index[t] # r.index
        /\ \A r, q \in Returned(MainProc, c) : r.index = q.index => r = q
        /\ (PastAssign(c) # {} \/ Returned(MainProc, c) # {})
              => hd_provider[MainProc][c] # NoProvider

\* two requests of one module have each constructed a provider before either
\* has assigned it
C32_Witness ==
    \E t1, t2 \in Threads :
        /\ t1 # t2 /\ mod[t1] = mod[t2] /\ mod[t1] # None
        /\ pc[t1] = "assign" /\ pc[t2] = "assign"
        /\ self[t1] # NoProvider /\ self[t2] # NoProvider
        /\ hd_provider[MainProc][mod[t1]] = NoProvider

\* the derivations that failed after their index was allocated
FailedDerivations == {f \in failed : f.op = "derive_next_address"}

\* C33: a derivation that fails after the allocation does not give the index
\* back: the failed call issued no address, no call holds or has returned
\* the index it was allocated, and the counter counts on (it is the number of
\* allocations made, failed ones included).
C33_FailedDerivationKeepsIndex ==
    \A c \in Currencies :
        LET log == allocLog[MainProc][c] IN
        /\ \A i \in DOMAIN log : log[i] = i - 1
        /\ c \in DOMAIN index_counters[MainProc]
              => index_counters[MainProc][c] \in {Len(log), Len(log) - 1}
        /\ \A f \in FailedDerivations :
              f.currency = c
                  => /\ \A r \in Returned(MainProc, c) : r.index # f.index
                     /\ \A th \in PastAssign(c) : index[th] # f.index
                     /\ index_counters[MainProc][c] > f.index
                     /\ \A g \in FailedDerivations :
                           (g.currency = c /\ g.index = f.index) => g = f

\* the derivation for index 0 failed and a later request was issued index 1
C33_Witness ==
    \E f \in FailedDerivations : \E r \in Returned(MainProc, f.currency) :
        f.index = 0 /\ r.index = 1

\* a request of thread th is where the provider, or the chain-data client, is
\* constructed
ConstructsProvider(th) == pc[th] = "create"
ConstructsClient(th) == pc[th] \in {"gb_create", "gx_create"}

\* C34: once a module has its provider, or its chain-data client, every step
\* leaves it in place, a failed derivation and a failed chain-data call
\* included, and no later request constructs another: with the provider set no
\* request is at the construction (where the seed is read and decrypted), with
\* the client set none is at the client's construction.
C34_ReadyIsAbsorbing ==
    [][\A m \in Currencies :
          /\ hd_provider[MainProc][m] # NoProvider
                => /\ hd_provider'[MainProc][m] = hd_provider[MainProc][m]
                   /\ \A th \in Threads :
                         mod'[th] = m => ~ConstructsProvider(th)'
          /\ getblock_client[MainProc][m] # NoClient
                => /\ getblock_client'[MainProc][m] = getblock_client[MainProc][m]
                   /\ \A th \in Threads :
                         mod'[th] = m => ~ConstructsClient(th)'
      ]_vars

\* a second address request derives with the provider of the first, whose
\* derivation had failed
C34_Witness ==
    \E th \in Threads :
        /\ pc[th] = "dna_derive" /\ index[th] = 1
        /\ \E f \in FailedDerivations : f.currency = mod[th] /\ f.index = 0
        /\ hd_provider[MainProc][mod[th]] # NoProvider

\* the balance query of thread th found no client and could not construct one
ClientConstructionFailed(th) ==
    /\ pc[th] \in {"gb_parent", "gb_return"}
    /\ use_getblock_for_balance[mod[th]]
    /\ handling[th] # NoError /\ RpcRequests(th) = <<>>

\* C35: with the chain-data service preferred, a balance query that cannot
\* construct the client posts no request, answers with the outcome of the
\* node wallet (its balance or its error), and leaves the module without
\* client; as long as the module has no client, every such query is either at
\* the construction or has failed it: none skips the attempt.
C35_FailedClientConstruction ==
    \A th \in Threads :
        /\ ClientConstructionFailed(th)
              => /\ getblock_client[MainProc][mod[th]] = NoClient
                 /\ request[th] = NoRequest
                 /\ pc[th] = "gb_return"
                       => /\ outcome[th].source = "node-wallet"
                          /\ Len(NodeAttempts(th)) = 1
                          /\ IF outcome[th].parent.ok
                             THEN /\ outcome[th].kind = "return"
                                  /\ outcome[th].value = outcome[th].parent.value
                             ELSE /\ outcome[th].kind = "raise"
                                  /\ outcome[th].error.type = outcome[th].parent.error
        /\ (InGetbalance(th) /\ use_getblock_for_balance[mod[th]]
               /\ getblock_client[MainProc][mod[th]] = NoClient)
              => pc[th] = "gb_create" \/ ClientConstructionFailed(th)

\* a second request finds the module still without client and the token still
\* missing: its balance query has failed the construction and is about to
\* return the node wallet's balance
C35_Witness ==
    \E th \in Threads :
        /\ ClientConstructionFailed(th) /\ pc[th] = "gb_return"
        /\ outcome[th].kind = "return"
        /\ access_token = "unset" /\ calls = MaxRequests

\* a decoded transaction as getrawtransaction gives it: it has its outputs,
\* and each output its value and its script ("confirmations" is left out for
\* a transaction that is not in a block yet)
WellFormedTx(tx) ==
    /\ tx.j = "object" /\ "vout" \in DOMAIN tx
    /\ \A i \in DOMAIN tx.vout : {"value", "scriptPubKey"} \subseteq DOMAIN tx.vout[i]
\* the response is one a list of outputs can be made of
AnsweredWell(resp) ==
    /\ resp.http = "ok" /\ resp.json
    /\ resp.data.error = JNull
    /\ WellFormedTx(resp.data.result)

\* C36: getaddrbytx of the BTC module asks the chain-data service whatever
\* the balance toggle says and never the node wallet, and it returns a list
\* only for a well-formed answer: a failed construction of the client, a
\* failed transport, an RPC error, an absent transaction and a malformed
\* response each end in the one ValueError.
C36_LookupFailuresSurface ==
    \A th \in LookupReturning("BTC") :
        /\ outcome[th].source = "chain-data" /\ NodeAttempts(th) = <<>>
        /\ outcome[th].kind = "raise" => outcome[th].error.type = "ValueError"
        /\ outcome[th].kind = "return"
              => /\ Len(RpcRequests(th)) = 1
                 /\ AnsweredWell(outcome[th].response)

\* thread th is inside derive_next_address
InDeriveNext(th) == pc[th] \in {"dna_lock", "dna_read", "dna_incr", "dna_unlock", "dna_derive"}

\* C37: under fair scheduling a thread that holds the lock, in the
\* initialisation of the counter, in an allocation or in a counter read, gives
\* it up again, and a thread that has called derive_next_address obtains an
\* index and its call ends (the address is returned or the exception raised).
C37_AllocationTerminates ==
    \A th \in Threads :
        /\ (lock[MainProc] = th) ~> (lock[MainProc] # th)
        /\ (pc[th] = "dna_lock") ~> (pc[th] = "dna_derive" /\ index[th] # NoIndex)
        /\ InDeriveNext(th) ~> (pc[th] = "done")

\* an allocation waits for the lock while a counter read holds it
C37_Witness ==
    \E t1, t2 \in Threads :
        /\ t1 # t2
        /\ pc[t1] = "dna_lock" /\ pc[t2] = "gci_return"
        /\ lock[MainProc] = t2

\* C38: what get_current_index reads under the lock is the number of
\* allocations made so far for its currency, failed derivations included, and
\* the index the next derive_next_address issues; it is still that when the
\* call returns; and since no step lowers a counter, a later call never
\* returns less than an earlier one.
C38_CurrentIndexIsAllocationCount ==
    [][/\ \A c \in DOMAIN index_counters[MainProc] :
             /\ c \in DOMAIN index_counters'[MainProc]
             /\ index_counters'[MainProc][c] >= index_counters[MainProc][c]
       /\ \A th \in Threads :
             pc'[th] = "gci_return"
                 => LET c == self'[th].currency IN
                    /\ index'[th] = Len(allocLog'[MainProc][c])
                    /\ index'[th] = index_counters'[MainProc][c]
                    /\ \A t \in Threads : pc'[t] \notin {"dna_read", "dna_incr"}
      ]_vars

\* after an allocation whose derivation failed, the counter read gives 1
C38_Witness ==
    \E th \in Threads :
        /\ pc[th] = "gci_return" /\ index[th] = 1
        /\ \E f \in FailedDerivations : f.currency = self[th].currency /\ f.index = 0
        /\ Returned(MainProc, self[th].currency) = {}

\* C39: load_secret never raises; when the file variable names an existing
\* file, the file's stripped content is returned whatever the plain variable
\* holds; when the file variable is not given, is unset or empty, the file is
\* missing or reading it fails, the plain variable's value (or None) is
\* returned.
FileNamed(w) ==
    /\ w.secret_file_var \notin {None, ""}
    /\ Truthy(Getenv(w.environ, w.secret_file_var))
ReadableFile(w) == FileNamed(w) /\ w.file.kind = "file" /\ w.file.decodable
C39_LoadSecretPrefersFile ==
    \A th \in Threads :
        pc[th] = "ls_return"
            => LET w == wrapper[th]
                   out == outcome[th] IN
               /\ out.kind = "return"
               /\ out.value = IF ReadableFile(w)
                               THEN Str(Strip(w.file.text))
                               ELSE Getenv(w.environ, w.env_var_name)

=============================================================================
